---- MODULE Spec2Model ----
(***************************************************************************)
(* A model of the Block-to-Python transpiler of src/block_type_Based.py:   *)
(* sourceToLine, linesToAst, tokenize_line, the TypeSystem, the two passes *)
(* of astToPy and the transpile wrapper.                                   *)
(*                                                                         *)
(* Text is modelled character by character: a Python str is a sequence of  *)
(* one-character strings.  Index variables keep the source's 0-based       *)
(* values; At and Slice translate them to TLA+'s 1-based sequences.        *)
(***************************************************************************)
EXTENDS Integers, Sequences, FiniteSets, TLC

VARIABLES
    pc,                    \* where the process is: "idle", "pass1", "pass2", "done"
    calls,                 \* number of transpile calls started in this process
    source,                \* the source text of the current call
    ast_nodes,             \* astToPy: the flat node sequence
    i,                     \* astToPy: the loop index of the running pass
    type_system,           \* astToPy: the TypeSystem instance
    collection_variables,  \* astToPy: the Collection-Variable Set
    current_line,          \* astToPy, pass 2: the line being emitted
    python_code,           \* astToPy, pass 2: the lines emitted so far
    result,                \* what transpile returned or raised
    history,               \* <<source, result>> of the calls that have ended
    logical_lines,         \* what sourceToLine returned, called on its own
    line_content,          \* the logical line tokenize_line is called with
    line_tokens,           \* what tokenize_line returned, called on its own
    api,                   \* the last call of a TypeSystem method and its outcome
    chunks,                \* the pieces the text given to sourceToLine was written as
    files,                 \* main: the files of the working directory, path -> content
    argv,                  \* main: sys.argv
    exit_status,           \* main: the exit status of the process, -1 while it has not ended
    stdout,                \* main: what was printed to standard output
    stderr                 \* main: what was printed to standard error

vars == <<pc, calls, source, ast_nodes, i, type_system, collection_variables,
          current_line, python_code, result, history,
          logical_lines, line_content, line_tokens, api, chunks,
          files, argv, exit_status, stdout, stderr>>

\* the variables of the command-line entry point
cli_vars == <<files, argv, exit_status, stdout, stderr>>

\* the variables of the units called on their own
unit_vars == <<logical_lines, line_content, line_tokens, api, chunks>>

\* ------------------------------------------------------------------ text

At(s, k) == s[k + 1]

Min(a, b) == IF a < b THEN a ELSE b

Max(a, b) == IF a > b THEN a ELSE b

\* Python's s[a:b] for 0 <= a
Slice(s, a, b) == SubSeq(s, a + 1, Min(b, Len(s)))

Lower == {"a","b","c","d","e","f","g","h","i","j","k","l","m",
          "n","o","p","q","r","s","t","u","v","w","x","y","z"}

Upper == {"A","B","C","D","E","F","G","H","I","J","K","L","M",
          "N","O","P","Q","R","S","T","U","V","W","X","Y","Z"}

DecimalDigits == {"0","1","2","3","4","5","6","7","8","9"}

\* str.isdigit() is also true of digit characters int() does not accept,
\* such as SUPERSCRIPT TWO
OtherDigits == {"²"}

IsSpaceCh(c) == c \in {" ", "\t", "\n", "\r"}

IsDigitCh(c) == c \in DecimalDigits \cup OtherDigits

IsAlphaCh(c) == c \in Lower \cup Upper

IsAlnumCh(c) == IsAlphaCh(c) \/ IsDigitCh(c)

\* str.isalpha(): non-empty and every character alphabetic
IsAlpha(s) == Len(s) > 0 /\ \A k \in 1..Len(s) : IsAlphaCh(s[k])

StartsWith(s, p) == Len(s) >= Len(p) /\ SubSeq(s, 1, Len(p)) = p

EndsWith(s, p) == Len(s) >= Len(p) /\ SubSeq(s, Len(s) - Len(p) + 1, Len(s)) = p

RECURSIVE LStrip(_)
LStrip(s) == IF Len(s) > 0 /\ IsSpaceCh(s[1]) THEN LStrip(Tail(s)) ELSE s

RECURSIVE RStrip(_)
RStrip(s) ==
    IF Len(s) > 0 /\ IsSpaceCh(s[Len(s)]) THEN RStrip(SubSeq(s, 1, Len(s) - 1)) ELSE s

Strip(s) == LStrip(RStrip(s))

RECURSIVE Concat(_)
Concat(ss) == IF ss = <<>> THEN <<>> ELSE Head(ss) \o Concat(Tail(ss))

\* '\n'.join(lines)
RECURSIVE JoinLines(_)
JoinLines(ls) ==
    IF ls = <<>> THEN <<>>
    ELSE IF Len(ls) = 1 THEN ls[1]
    ELSE ls[1] \o <<"\n">> \o JoinLines(Tail(ls))

\* ------------------------------------------------------- numeric literals

DigitVal(c) ==
    CASE c = "0" -> 0 [] c = "1" -> 1 [] c = "2" -> 2 [] c = "3" -> 3 [] c = "4" -> 4
      [] c = "5" -> 5 [] c = "6" -> 6 [] c = "7" -> 7 [] c = "8" -> 8 [] c = "9" -> 9

DigitCh(d) == <<"0","1","2","3","4","5","6","7","8","9">>[d + 1]

RECURSIVE NatOf(_)
NatOf(ds) ==
    IF ds = <<>> THEN 0
    ELSE NatOf(SubSeq(ds, 1, Len(ds) - 1)) * 10 + DigitVal(ds[Len(ds)])

RECURSIVE StrOfNat(_)
StrOfNat(n) == IF n < 10 THEN <<DigitCh(n)>> ELSE StrOfNat(n \div 10) \o <<DigitCh(n % 10)>>

\* str(n) of a Python int
StrOfInt(n) == IF n < 0 THEN <<"-">> \o StrOfNat(0 - n) ELSE StrOfNat(n)

\* int(num_str) accepts an optional sign and decimal digits only
IntLiteralOk(num_str) ==
    LET ds == IF Len(num_str) > 0 /\ num_str[1] = "-" THEN Tail(num_str) ELSE num_str
    IN Len(ds) > 0 /\ \A k \in 1..Len(ds) : ds[k] \in DecimalDigits

IntOf(num_str) ==
    IF num_str[1] = "-" THEN 0 - NatOf(Tail(num_str)) ELSE NatOf(num_str)

RECURSIVE StripLeadingZeros(_)
StripLeadingZeros(ds) ==
    IF Len(ds) > 1 /\ ds[1] = "0" THEN StripLeadingZeros(Tail(ds)) ELSE ds

RECURSIVE StripTrailingZeros(_)
StripTrailingZeros(ds) ==
    IF Len(ds) > 1 /\ ds[Len(ds)] = "0"
    THEN StripTrailingZeros(SubSeq(ds, 1, Len(ds) - 1)) ELSE ds

IndexOfDot(s) == CHOOSE k \in 1..Len(s) : s[k] = "." /\ \A m \in 1..(k - 1) : s[m] # "."

\* float(num_str) accepts sign, digits, one '.', digits (decimal digits only)
FloatLiteralOk(num_str) ==
    \A k \in 1..Len(num_str) :
        num_str[k] \in DecimalDigits \cup {"."} \/ (k = 1 /\ num_str[k] = "-")

\* str(float(num_str)) for the short literals of the model: the integer part
\* without leading zeros, the fraction without trailing zeros, "0" for an
\* empty part, the sign kept (positional notation; no exponent form arises
\* below 16 significant digits and above 1e-4)
StrOfFloat(num_str) ==
    LET neg  == num_str[1] = "-"
        body == IF neg THEN Tail(num_str) ELSE num_str
        d    == IndexOfDot(body)
        ip   == SubSeq(body, 1, d - 1)
        fp   == SubSeq(body, d + 1, Len(body))
        ips  == IF ip = <<>> THEN <<"0">> ELSE StripLeadingZeros(ip)
        fps  == IF fp = <<>> THEN <<"0">> ELSE StripTrailingZeros(fp)
    IN (IF neg THEN <<"-">> ELSE <<>>) \o ips \o <<".">> \o fps

\* ------------------------------------------------------- string literals

\* the string literals the source compares with and emits
Lit == [
      for |-> <<"f","o","r">>,
      while |-> <<"w","h","i","l","e">>,
      if |-> <<"i","f">>,
      elif |-> <<"e","l","i","f">>,
      else |-> <<"e","l","s","e">>,
      in |-> <<"i","n">>,
      fn |-> <<"f","n">>,
      arrow |-> <<"-",">">>,
      num |-> <<"n","u","m">>,
      bool |-> <<"b","o","o","l">>,
      str |-> <<"s","t","r">>,
      func |-> <<"f","u","n","c">>,
      list |-> <<"l","i","s","t">>,
      tuple |-> <<"t","u","p","l","e">>,
      map |-> <<"m","a","p">>,
      set |-> <<"s","e","t">>,
      print |-> <<"p","r","i","n","t">>,
      len |-> <<"l","e","n">>,
      range |-> <<"r","a","n","g","e">>,
      type |-> <<"t","y","p","e">>,
      int |-> <<"i","n","t">>,
      float |-> <<"f","l","o","a","t">>,
      dict |-> <<"d","i","c","t">>,
      true |-> <<"t","r","u","e">>,
      false |-> <<"f","a","l","s","e">>,
      none |-> <<"n","o","n","e">>,
      True |-> <<"T","r","u","e">>,
      False |-> <<"F","a","l","s","e">>,
      None |-> <<"N","o","n","e">>,
      def |-> <<"d","e","f">>,
      return |-> <<"r","e","t","u","r","n">>,
      block_ |-> <<"b","l","o","c","k","_">>,
      def_sp |-> <<"d","e","f"," ">>,
      return_sp |-> <<"r","e","t","u","r","n"," ">>,
      for_sp |-> <<"f","o","r"," ">>,
      sp_in_sp |-> <<" ","i","n"," ">>,
      if_sp |-> <<"i","f"," ">>,
      elif_sp |-> <<"e","l","i","f"," ">>,
      while_sp |-> <<"w","h","i","l","e"," ">>,
      range_open |-> <<"r","a","n","g","e","(">>,
      comma_sp |-> <<","," ">>,
      plus1_close |-> <<" ","+"," ","1",")">>,
      copy |-> <<"[",":","]">>,
      plus1_bracket |-> <<"+","1","]">>,
      not_sp |-> <<"n","o","t"," ">>,
      sp_and_sp |-> <<" ","a","n","d"," ">>,
      sp_or_sp |-> <<" ","o","r"," ">>,
      pow |-> <<"*","*">>,
      dotdot |-> <<".",".">>,
      eqeq |-> <<"=","=">>,
      noteq |-> <<"!","=">>,
      ge |-> <<">","=">>,
      le |-> <<"<","=">>,
      floordiv |-> <<"/","/">>,
      cm_shift |-> <<">",">">>,
      cm_hash |-> <<"#">>,
      cm_open |-> <<"/","*">>,
      cm_close |-> <<"*","/">> ]

\* ------------------------------------------------------------------ nodes

\* A node is [t, v, py]: its class, its .value and its .py_value.  NUMBER
\* keeps str(value) in both (the code reads a NUMBER's py_value only).

\* class STRING (STRING is a TLA+ keyword)
STRING_(value) == [t |-> "STRING", v |-> value, py |-> <<"\"">> \o value \o <<"\"">>]

\* NUMBER(int(num_str)) or NUMBER(float(num_str)); a literal that int() or
\* float() rejects raises ValueError, kept as a marker node that aborts
\* linesToAst (see transpile)
NUMBER(num_str) ==
    IF \E k \in 1..Len(num_str) : num_str[k] = "."
    THEN IF FloatLiteralOk(num_str)
         THEN [t |-> "NUMBER", v |-> StrOfFloat(num_str), py |-> StrOfFloat(num_str)]
         ELSE [t |-> "ValueError", v |-> num_str, py |-> <<>>]
    ELSE IF IntLiteralOk(num_str)
         THEN [t |-> "NUMBER", v |-> StrOfInt(IntOf(num_str)), py |-> StrOfInt(IntOf(num_str))]
         ELSE [t |-> "ValueError", v |-> num_str, py |-> <<>>]

OPERAND(value) == [t |-> "OPERAND", v |-> value, py |-> value]

operator_map(value) ==
    CASE value = <<"^">> -> Lit.pow
      [] value = <<"!">> -> Lit.not_sp
      [] value = <<"&">> -> Lit.sp_and_sp
      [] value = <<"|">> -> Lit.sp_or_sp
      [] OTHER -> value

OPERATOR(value) == [t |-> "OPERATOR", v |-> value, py |-> operator_map(value)]

keywords == {Lit.for, Lit.while, Lit.if, Lit.elif, Lit.else, Lit.in, Lit.fn, Lit.arrow}

KEYWORD(value) ==
    [t |-> "KEYWORD", v |-> value,
     py |-> IF value = Lit.arrow THEN Lit.return
            ELSE IF value = Lit.fn THEN Lit.def ELSE value]

SPACE(value) == [t |-> "SPACE", v |-> value, py |-> value]

EOL == [t |-> "EOL", v |-> <<"\n">>, py |-> <<"\n">>]

IsOperand(n, value) == n.t = "OPERAND" /\ n.v = value

IsOperator(n, value) == n.t = "OPERATOR" /\ n.v = value

IsKeyword(n, value) == n.t = "KEYWORD" /\ n.v = value

\* ''.join(t.py_value for t in tokens)
RECURSIVE JoinPy(_)
JoinPy(tokens) == IF tokens = <<>> THEN <<>> ELSE Head(tokens).py \o JoinPy(Tail(tokens))

\* ------------------------------------------------------------------ lexer

comment_starts == {Lit.cm_shift, Lit.cm_hash, Lit.floordiv, Lit.cm_open, Lit.cm_close}

IsCommentLine(line) == \E c \in comment_starts : StartsWith(line, c)

\* string_content.replace('\n', '\\n').replace('\r', '\\r')
RECURSIVE EscapeNewlines(_)
EscapeNewlines(s) ==
    IF s = <<>> THEN <<>>
    ELSE (IF Head(s) = "\n" THEN <<"\\", "n">>
          ELSE IF Head(s) = "\r" THEN <<"\\", "r">>
          ELSE <<Head(s)>>) \o EscapeNewlines(Tail(s))

\* one iteration of sourceToLine's while loop; st holds its local variables
SourceStep(src, st) ==
    LET char == At(src, st.i) IN
    IF st.in_block_comment
    THEN IF st.i + 1 < Len(src) /\ Slice(src, st.i, st.i + 2) = Lit.cm_close
         THEN [st EXCEPT !.in_block_comment = FALSE, !.i = @ + 2]
         ELSE [st EXCEPT !.i = @ + 1]
    ELSE IF char = "\"" /\ (st.i = 0 \/ At(src, st.i - 1) # "\\")
    THEN IF ~st.in_string
         THEN [st EXCEPT !.in_string = TRUE, !.string_start = st.i, !.i = @ + 1]
         ELSE [st EXCEPT
                 !.current_line = @ \o <<"\"">>
                                    \o EscapeNewlines(Slice(src, st.string_start + 1, st.i))
                                    \o <<"\"">>,
                 !.in_string = FALSE, !.string_start = -1, !.i = @ + 1]
    ELSE IF st.in_string
    THEN [st EXCEPT !.i = @ + 1]
    ELSE IF char = "\n"
    THEN LET line == Strip(st.current_line) IN
         [st EXCEPT
            !.in_block_comment = (line # <<>> /\ StartsWith(line, Lit.cm_open)),
            !.lines = IF line # <<>> /\ ~IsCommentLine(line)
                      THEN Append(@, RStrip(st.current_line)) ELSE @,
            !.current_line = <<>>,
            !.i = @ + 1]
    ELSE [st EXCEPT !.current_line = @ \o <<char>>, !.i = @ + 1]

RECURSIVE SourceLoop(_, _)
SourceLoop(src, st) == IF st.i < Len(src) THEN SourceLoop(src, SourceStep(src, st)) ELSE st

sourceToLine(src) ==
    LET st == SourceLoop(src, [i |-> 0, in_block_comment |-> FALSE, current_line |-> <<>>,
                               in_string |-> FALSE, string_start |-> -1, lines |-> <<>>])
        line == Strip(st.current_line)
    IN IF line # <<>> /\ ~IsCommentLine(line)
       THEN Append(st.lines, RStrip(st.current_line))
       ELSE st.lines

\* -------------------------------------------------------------- tokenizer

two_char_ops == {Lit.dotdot, Lit.eqeq, Lit.noteq, Lit.ge, Lit.le, Lit.floordiv, Lit.arrow}

single_char_ops == {"+","-","*","/","^","%","=","!","&","|","(",")","<",">","{","}"}

punctuation == {"[", "]", ",", ":"}

\* the string scan of tokenize_line: the index of the closing quote, or len
RECURSIVE StringEnd(_, _)
StringEnd(content, end) ==
    IF end < Len(content) /\ ~(At(content, end) = "\"" /\ At(content, end - 1) # "\\")
    THEN StringEnd(content, end + 1) ELSE end

\* a numeric scan that takes the first '.' whatever follows it
RECURSIVE NumEndGreedy(_, _, _)
NumEndGreedy(content, end, has_dot) ==
    IF end < Len(content)
       /\ (IsDigitCh(At(content, end)) \/ (At(content, end) = "." /\ ~has_dot))
    THEN NumEndGreedy(content, end + 1, has_dot \/ At(content, end) = ".")
    ELSE end

\* the numeric scan of tokenize_line: the index after the literal
RECURSIVE NumEnd(_, _, _)
NumEnd(content, end, has_dot) ==
    IF end < Len(content)
       /\ (IsDigitCh(At(content, end)) \/ (At(content, end) = "." /\ ~has_dot))
    THEN IF At(content, end) = "."
         THEN IF end + 1 < Len(content) /\ At(content, end + 1) = "."
              THEN end
              ELSE NumEnd(content, end + 1, TRUE)
         ELSE NumEnd(content, end + 1, has_dot)
    ELSE end

\* the identifier scan of tokenize_line: the index after the word
RECURSIVE WordEnd(_, _)
WordEnd(content, end) ==
    IF end < Len(content) /\ (IsAlnumCh(At(content, end)) \/ At(content, end) = "_")
    THEN WordEnd(content, end + 1) ELSE end

RECURSIVE TokenizeFrom(_, _, _)
TokenizeFrom(content, k, tokens) ==
    IF k >= Len(content) THEN tokens
    ELSE LET c == At(content, k) IN
      IF IsSpaceCh(c) THEN TokenizeFrom(content, k + 1, tokens)
      ELSE IF c = "\""
      THEN LET end == StringEnd(content, k + 1)
           IN TokenizeFrom(content, end + 1, Append(tokens, STRING_(Slice(content, k + 1, end))))
      ELSE IF IsDigitCh(c) \/ (c = "-" /\ k + 1 < Len(content) /\ IsDigitCh(At(content, k + 1)))
      THEN LET end == NumEnd(content, k + 1, FALSE)
           IN TokenizeFrom(content, end, Append(tokens, NUMBER(Slice(content, k, end))))
      ELSE IF k + 1 < Len(content) /\ Slice(content, k, k + 2) \in two_char_ops
      THEN LET op == Slice(content, k, k + 2)
           IN TokenizeFrom(content, k + 2,
                  Append(tokens, IF op = Lit.arrow THEN KEYWORD(Lit.arrow) ELSE OPERATOR(op)))
      ELSE IF c \in single_char_ops
      THEN TokenizeFrom(content, k + 1, Append(tokens, OPERATOR(<<c>>)))
      ELSE IF c \in punctuation
      THEN TokenizeFrom(content, k + 1, Append(tokens, OPERAND(<<c>>)))
      ELSE IF IsAlphaCh(c) \/ c = "_"
      THEN LET end  == WordEnd(content, k + 1)
               word == Slice(content, k, end)
           IN TokenizeFrom(content, end,
                  Append(tokens, IF word \in keywords THEN KEYWORD(word) ELSE OPERAND(word)))
      ELSE TokenizeFrom(content, k + 1, tokens)

tokenize_line(content) == TokenizeFrom(content, 0, <<>>)

\* ' ' * indent
Spaces(n) == [k \in 1..n |-> " "]

RECURSIVE linesToAst(_)
linesToAst(lines) ==
    IF lines = <<>> THEN <<>>
    ELSE LET line    == Head(lines)
             content == LStrip(line)
             indent  == Len(line) - Len(content)
         IN (IF line = <<>> THEN <<EOL>>
             ELSE (IF indent > 0 THEN <<SPACE(Spaces(indent))>> ELSE <<>>)
                  \o tokenize_line(content) \o <<EOL>>)
            \o linesToAst(Tail(lines))

\* ------------------------------------------------------------ TypeSystem

BUILTIN_TYPES == {Lit.num, Lit.bool, Lit.str, Lit.func, Lit.list, Lit.tuple, Lit.map, Lit.set}

BUILTIN_FUNCTIONS == {Lit.print, Lit.len, Lit.range, Lit.type, Lit.str, Lit.int, Lit.float,
                      Lit.bool, Lit.list, Lit.dict, Lit.set, Lit.tuple}

\* name -> <<type, Python literal>>
BUILTIN_CONSTANTS ==
    (Lit.true :> <<Lit.bool, Lit.True>>) @@ (Lit.false :> <<Lit.bool, Lit.False>>)
    @@ (Lit.none :> <<Lit.str, Lit.None>>)

\* no exception pending
NoError == [kind |-> "none", text |-> "", arg |-> <<>>]

\* raise BlockError(f"{text}'{arg}'")
BlockError(text, arg) == [kind |-> "BlockError", text |-> text, arg |-> arg]

\* dict[key] = value
Put(d, key, value) == (key :> value) @@ d

\* TypeSystem.__init__
NewTypeSystem ==
    [variables       |-> <<>>,
     functions       |-> [f \in BUILTIN_FUNCTIONS |-> Lit.num],
     function_params |-> <<>>]

_is_collection_type(type_str) ==
    /\ type_str # <<>>
    /\ \/ (StartsWith(type_str, <<"[">>) /\ EndsWith(type_str, <<"]">>))
       \/ (StartsWith(type_str, <<"(">>) /\ EndsWith(type_str, <<")">>))
       \/ (StartsWith(type_str, <<"{">>) /\ EndsWith(type_str, <<"}">>))

IsValidType(t) == t \in BUILTIN_TYPES \/ _is_collection_type(t)

\* a define_variable that stores the type before it validates it
define_variable_StoreFirst(ts, name, var_type) ==
    [ts  |-> [ts EXCEPT !.variables = Put(@, name, var_type)],
     err |-> IF ~IsValidType(var_type) THEN BlockError("Undefined type ", var_type) ELSE NoError]

\* the methods return [ts, err]: the TypeSystem after the call and the
\* exception it raised, if any
define_variable(ts, name, var_type) ==
    IF ~IsValidType(var_type)
    THEN [ts |-> ts, err |-> BlockError("Undefined type ", var_type)]
    ELSE [ts |-> [ts EXCEPT !.variables = Put(@, name, var_type)], err |-> NoError]

define_function(ts, name, return_type, params) ==
    IF ~IsValidType(return_type)
    THEN [ts |-> ts, err |-> BlockError("Undefined return type ", return_type)]
    ELSE LET stored == [ts EXCEPT !.functions = Put(@, name, return_type),
                                  !.function_params = Put(@, name, params)]
             bad    == {k \in 1..Len(params) : ~IsValidType(params[k][2])}
         IN IF bad = {}
            THEN [ts |-> stored, err |-> NoError]
            ELSE [ts |-> stored,
                  err |-> BlockError("Undefined parameter type ",
                                     params[CHOOSE k \in bad : \A m \in bad : k <= m][2])]

is_defined_variable(ts, name) == name \in DOMAIN ts.variables

is_defined_function(ts, name) == name \in DOMAIN ts.functions

\* ------------------------------------------------- type annotations

\* the bracket scan of extract_type_info; it reads OPERAND values up to the
\* matching close bracket and does not stop at a line end
RECURSIVE TypeBracketScan(_, _, _, _, _, _)
TypeBracketScan(nodes, idx, depth, bracket, close_bracket, type_tokens) ==
    IF idx < Len(nodes) /\ depth > 0
    THEN LET n == At(nodes, idx) IN
         IF n.t = "OPERAND"
         THEN TypeBracketScan(nodes, idx + 1,
                  IF n.v = bracket THEN depth + 1
                  ELSE IF n.v = close_bracket THEN depth - 1 ELSE depth,
                  bracket, close_bracket, type_tokens \o n.v)
         ELSE TypeBracketScan(nodes, idx + 1, depth, bracket, close_bracket, type_tokens)
    ELSE [name |-> type_tokens, idx |-> idx]

RECURSIVE TypeScan(_, _, _)
TypeScan(nodes, idx, type_tokens) ==
    IF idx >= Len(nodes) THEN [name |-> type_tokens, idx |-> idx]
    ELSE LET n == At(nodes, idx) IN
      IF n.t = "EOL" \/ (n.t = "OPERAND" /\ n.v \in {<<"=">>, <<",">>})
      THEN [name |-> type_tokens, idx |-> idx]
      ELSE IF n.t = "OPERAND" /\ IsAlpha(n.v)
      THEN TypeScan(nodes, idx + 1, type_tokens \o n.v)
      ELSE IF n.t = "OPERAND" /\ n.v \in {<<"[">>, <<"(">>, <<"{">>}
      THEN TypeBracketScan(nodes, idx + 1, 1, n.v,
               CASE n.v = <<"[">> -> <<"]">> [] n.v = <<"(">> -> <<")">> [] OTHER -> <<"}">>,
               type_tokens \o n.v)
      ELSE [name |-> type_tokens, idx |-> idx]

\* returns [name, idx]; name = <<>> stands for None (a type name is never empty)
extract_type_info(nodes, start_idx) ==
    IF start_idx >= Len(nodes) \/ ~IsOperand(At(nodes, start_idx), <<":">>)
    THEN [name |-> <<>>, idx |-> start_idx]
    ELSE TypeScan(nodes, start_idx + 1, <<>>)

infer_value_type(nodes, start_idx, ts) ==
    IF start_idx >= Len(nodes) THEN Lit.num
    ELSE LET node == At(nodes, start_idx) IN
      IF node.t = "OPERAND" /\ node.v \in DOMAIN BUILTIN_CONSTANTS
      THEN BUILTIN_CONSTANTS[node.v][1]
      ELSE IF node.t = "STRING" THEN Lit.str
      ELSE IF node.t = "NUMBER" THEN Lit.num
      ELSE IF node.t = "OPERAND" /\ node.v = <<"[">> THEN Lit.list
      ELSE IF node.t = "OPERAND" /\ node.v = <<"(">> THEN Lit.tuple
      ELSE IF node.t = "OPERAND" /\ node.v = <<"{">> THEN Lit.set
      ELSE IF node.t = "OPERAND" /\ node.v \in DOMAIN ts.variables THEN ts.variables[node.v]
      ELSE IF node.t = "OPERAND" /\ node.v \in DOMAIN ts.functions THEN Lit.func
      ELSE Lit.num

\* ------------------------------------------------------ astToPy, pass 1

collection_openers == {<<"[">>, <<"(">>, <<"{">>}

not_a_name == {<<"[">>, <<"]">>, <<",">>, <<":">>, <<"=">>}

\* index of the first OPERAND ']' at or after j, or len(ast_nodes)
RECURSIVE FindCloseBracket(_, _)
FindCloseBracket(nodes, j) ==
    IF j < Len(nodes) /\ ~IsOperand(At(nodes, j), <<"]">>)
    THEN FindCloseBracket(nodes, j + 1) ELSE j

\* index of the first OPERAND ',' or ']' at or after k, or len(ast_nodes)
RECURSIVE SkipDefault(_, _)
SkipDefault(nodes, k) ==
    IF k < Len(nodes) /\ ~(At(nodes, k).t = "OPERAND" /\ At(nodes, k).v \in {<<",">>, <<"]">>})
    THEN SkipDefault(nodes, k + 1) ELSE k

\* the parameter loop of the first pass: the list of <<name, type>>
RECURSIVE ParamLoop(_, _, _)
ParamLoop(nodes, k, params) ==
    IF k < Len(nodes) /\ ~IsOperand(At(nodes, k), <<"]">>)
    THEN IF At(nodes, k).t = "OPERAND" /\ At(nodes, k).v \notin {<<",">>, <<":">>}
         THEN LET param_name == At(nodes, k).v
                  k1         == k + 1
                  typed      == k1 < Len(nodes) /\ IsOperand(At(nodes, k1), <<":">>)
                  info       == extract_type_info(nodes, k1)
                  param_type == IF typed /\ info.name \in BUILTIN_TYPES
                                THEN info.name ELSE Lit.num
                  k2         == IF typed THEN info.idx ELSE k1
                  k3         == IF k2 < Len(nodes) /\ IsOperator(At(nodes, k2), <<"=">>)
                                THEN SkipDefault(nodes, k2 + 1) ELSE k2
              IN ParamLoop(nodes, k3, Append(params, <<param_name, param_type>>))
         ELSE ParamLoop(nodes, k + 1, params)
    ELSE params

\* "Collect loop variable definitions": node i is the keyword for
CollectLoopVariable(nodes, k, ts, cv) ==
    IF k + 1 < Len(nodes) /\ At(nodes, k + 1).t = "OPERAND"
    THEN LET r == define_variable(ts, At(nodes, k + 1).v, Lit.num)
         IN [ts |-> r.ts, cv |-> cv, err |-> r.err]
    ELSE [ts |-> ts, cv |-> cv, err |-> NoError]

\* "Collect function definitions": node i is the keyword fn
CollectFunction(nodes, k, ts, cv) ==
    IF k + 1 < Len(nodes) /\ At(nodes, k + 1).t = "OPERAND"
    THEN LET func_name == At(nodes, k + 1).v
             j         == FindCloseBracket(nodes, k + 2) + 1
             rinfo     == extract_type_info(nodes, j)
             ret_type  == IF j < Len(nodes) /\ IsOperand(At(nodes, j), <<":">>)
                             /\ rinfo.name \in BUILTIN_TYPES
                          THEN rinfo.name ELSE Lit.num
             params    == IF k + 2 < Len(nodes) /\ IsOperand(At(nodes, k + 2), <<"[">>)
                          THEN ParamLoop(nodes, k + 3, <<>>) ELSE <<>>
             r         == define_function(ts, func_name, ret_type, params)
         IN [ts |-> r.ts, cv |-> cv, err |-> r.err]
    ELSE [ts |-> ts, cv |-> cv, err |-> NoError]

\* "Collect variable definitions": node i is an OPERAND that can be a name
CollectVariable(nodes, k, ts, cv) ==
    IF k + 1 < Len(nodes)
    THEN LET next_node == At(nodes, k + 1)
             var_name  == At(nodes, k).v
         IN IF IsOperand(next_node, <<":">>)
            THEN \* Case 1: type annotation
                 LET info == extract_type_info(nodes, k + 1)
                     r    == IF info.name # <<>> /\ IsValidType(info.name)
                             THEN define_variable(ts, var_name, info.name)
                             ELSE [ts |-> ts, err |-> NoError]
                     te   == info.idx
                     coll == /\ te < Len(nodes) /\ IsOperator(At(nodes, te), <<"=">>)
                             /\ te + 1 < Len(nodes)
                             /\ At(nodes, te + 1).t = "OPERAND"
                             /\ At(nodes, te + 1).v \in collection_openers
                 IN [ts  |-> r.ts,
                     cv  |-> IF r.err = NoError /\ coll THEN cv \cup {var_name} ELSE cv,
                     err |-> r.err]
            ELSE IF IsOperator(next_node, <<"=">>) /\ k + 2 < Len(nodes)
            THEN \* Case 2: no type annotation
                 LET value_node == At(nodes, k + 2)
                     r == define_variable(ts, var_name, infer_value_type(nodes, k + 2, ts))
                 IN [ts  |-> r.ts,
                     cv  |-> IF r.err = NoError /\ value_node.t = "OPERAND"
                                /\ value_node.v \in collection_openers
                             THEN cv \cup {var_name} ELSE cv,
                     err |-> r.err]
            ELSE [ts |-> ts, cv |-> cv, err |-> NoError]
    ELSE [ts |-> ts, cv |-> cv, err |-> NoError]

\* one iteration of the first pass's while loop, at node k
FirstPassNode(nodes, k, ts, cv) ==
    LET node == At(nodes, k) IN
    IF IsKeyword(node, Lit.for) THEN CollectLoopVariable(nodes, k, ts, cv)
    ELSE IF IsKeyword(node, Lit.fn) THEN CollectFunction(nodes, k, ts, cv)
    ELSE IF node.t = "OPERAND" /\ node.v \notin not_a_name
    THEN CollectVariable(nodes, k, ts, cv)
    ELSE [ts |-> ts, cv |-> cv, err |-> NoError]

\* the first pass's while loop from node k: [ts, cv, err] when it ends
RECURSIVE FirstPassRun(_, _, _, _)
FirstPassRun(nodes, k, ts, cv) ==
    IF k < Len(nodes)
    THEN LET r == FirstPassNode(nodes, k, ts, cv)
         IN IF r.err # NoError THEN r ELSE FirstPassRun(nodes, k + 1, r.ts, r.cv)
    ELSE [ts |-> ts, cv |-> cv, err |-> NoError]

\* ------------------------------------------------------ astToPy, pass 2

\* The emitters return [i, cur, err]: the loop index and current_line after
\* the iteration, and the exception raised, if any.

block_starts == {Lit.if_sp, Lit.elif_sp, Lit.while_sp, Lit.else, Lit.def_sp}

\* the line appended to python_code at an EOL node
LineAtEOL(cur) ==
    IF cur # <<>> /\ ~EndsWith(RStrip(cur), <<":">>)
       /\ \E kw \in block_starts : StartsWith(Strip(cur), kw)
    THEN cur \o <<":">> ELSE cur

\* the default-value loop of a function header
RECURSIVE FnDefaultLoop(_, _, _)
FnDefaultLoop(nodes, k, cur) ==
    IF k < Len(nodes) /\ ~(At(nodes, k).t = "OPERAND" /\ At(nodes, k).v \in {<<",">>, <<"]">>})
    THEN IF IsOperand(At(nodes, k), <<":">>)
         THEN FnDefaultLoop(nodes, extract_type_info(nodes, k).idx, cur)
         ELSE FnDefaultLoop(nodes, k + 1, cur \o At(nodes, k).py)
    ELSE [i |-> k, cur |-> cur]

\* the parameter loop of a function header
RECURSIVE FnParamLoop(_, _, _)
FnParamLoop(nodes, k, cur) ==
    IF k < Len(nodes) /\ ~IsOperand(At(nodes, k), <<"]">>) /\ At(nodes, k).t # "EOL"
    THEN LET n == At(nodes, k) IN
         IF IsOperand(n, <<":">>)
         THEN FnParamLoop(nodes, extract_type_info(nodes, k).idx, cur)
         ELSE IF n.t = "OPERAND" /\ IsAlpha(n.v)
         THEN LET cur1 == cur \o Lit.block_ \o n.v IN
              IF k + 1 < Len(nodes) /\ IsOperator(At(nodes, k + 1), <<"=">>)
              THEN LET d == FnDefaultLoop(nodes, k + 2, cur1 \o <<"=">>)
                   IN FnParamLoop(nodes, d.i, d.cur)
              ELSE FnParamLoop(nodes, k + 1, cur1)
         ELSE IF IsOperand(n, <<",">>)
         THEN FnParamLoop(nodes, k + 1, cur \o <<",">>)
         ELSE FnParamLoop(nodes, k + 1, cur)
    ELSE [i |-> k, cur |-> cur]

\* node k is the keyword fn
EmitFn(nodes, k, cur) ==
    LET cur0  == cur \o Lit.def_sp
        named == k + 1 < Len(nodes) /\ At(nodes, k + 1).t = "OPERAND"
        k1    == IF named THEN k + 2 ELSE k + 1
        cur1  == IF named THEN cur0 \o Lit.block_ \o At(nodes, k + 1).v ELSE cur0
    IN IF k1 < Len(nodes) /\ IsOperand(At(nodes, k1), <<"[">>)
       THEN LET p == FnParamLoop(nodes, k1 + 1, cur1 \o <<"(">>)
            IN IF p.i < Len(nodes) /\ IsOperand(At(nodes, p.i), <<"]">>)
               THEN [i |-> p.i + 1, cur |-> p.cur \o <<")">>, err |-> NoError]
               ELSE [i |-> p.i, cur |-> p.cur, err |-> NoError]
       ELSE [i |-> k1, cur |-> cur1, err |-> NoError]

\* the iterable tokens of a for header: up to the line end or an OPERAND ':'
RECURSIVE IterableEnd(_, _)
IterableEnd(nodes, k) ==
    IF k < Len(nodes) /\ At(nodes, k).t # "EOL" /\ ~IsOperand(At(nodes, k), <<":">>)
    THEN IterableEnd(nodes, k + 1) ELSE k

IsRangeOp(t) == IsOperator(t, Lit.dotdot)

\* an iterable clause whose range keeps the end bound as written
IterableTextHalfOpen(iterable_tokens) ==
    LET n      == Len(iterable_tokens)
        ops    == {k \in 1..n : IsRangeOp(iterable_tokens[k])}
        first  == CHOOSE k \in ops : \A m \in ops : k <= m
        starts == SubSeq(iterable_tokens, 1, first - 1)
        ends   == SelectSeq(SubSeq(iterable_tokens, first + 1, n), LAMBDA t : ~IsRangeOp(t))
    IN IF ops # {} /\ JoinPy(starts) # <<>> /\ JoinPy(ends) # <<>>
       THEN Lit.range_open \o JoinPy(starts) \o Lit.comma_sp \o JoinPy(ends) \o <<")">>
       ELSE JoinPy(iterable_tokens)

\* the text emitted for the iterable clause
IterableText(iterable_tokens) ==
    LET n      == Len(iterable_tokens)
        ops    == {k \in 1..n : IsRangeOp(iterable_tokens[k])}
        first  == CHOOSE k \in ops : \A m \in ops : k <= m
        starts == SubSeq(iterable_tokens, 1, first - 1)
        ends   == SelectSeq(SubSeq(iterable_tokens, first + 1, n), LAMBDA t : ~IsRangeOp(t))
        start_expr == JoinPy(starts)
        end_expr   == JoinPy(ends)
    IN IF ops # {} /\ start_expr # <<>> /\ end_expr # <<>>
       THEN Lit.range_open \o start_expr \o Lit.comma_sp \o end_expr \o Lit.plus1_close
       ELSE JoinPy(iterable_tokens)

\* the loop of a for header, from node k to the line end
RECURSIVE ForLoop(_, _, _)
ForLoop(nodes, k, cur) ==
    IF k < Len(nodes) /\ At(nodes, k).t # "EOL"
    THEN LET n == At(nodes, k) IN
         IF IsKeyword(n, Lit.in)
         THEN LET e == IterableEnd(nodes, k + 1)
              IN ForLoop(nodes, e, cur \o Lit.sp_in_sp \o IterableText(Slice(nodes, k + 1, e)))
         ELSE IF n.t = "OPERAND" /\ IsAlpha(n.v)
         THEN ForLoop(nodes, k + 1, cur \o Lit.block_ \o n.v)
         ELSE ForLoop(nodes, k + 1, cur \o n.py)
    ELSE [i |-> k, cur |-> cur]

\* node k is the keyword for
EmitFor(nodes, k, cur) ==
    LET f == ForLoop(nodes, k + 1, cur \o Lit.for_sp)
    IN [i |-> f.i, cur |-> f.cur, err |-> NoError]

\* node k is a keyword
EmitKeyword(nodes, k, cur) ==
    LET node == At(nodes, k) IN
    IF node.v = Lit.fn THEN EmitFn(nodes, k, cur)
    ELSE IF node.v = Lit.arrow THEN [i |-> k + 1, cur |-> cur \o Lit.return_sp, err |-> NoError]
    ELSE IF node.v = Lit.for THEN EmitFor(nodes, k, cur)
    ELSE IF node.v \in {Lit.if, Lit.elif, Lit.while}
    THEN [i |-> k + 1, cur |-> cur \o node.v \o <<" ">>, err |-> NoError]
    ELSE IF node.v = Lit.else THEN [i |-> k + 1, cur |-> cur \o node.v, err |-> NoError]
    ELSE [i |-> k + 1, cur |-> cur \o node.py \o <<" ">>, err |-> NoError]

\* node k is the OPERAND ':'
EmitColon(nodes, k, cur) ==
    LET prev == At(nodes, k - 1)
        is_type_annotation ==
            k > 0 /\ prev.t = "OPERAND" /\ (IsAlpha(prev.v) \/ prev.v = <<"]">>)
    IN IF is_type_annotation /\ k - 2 >= 0 /\ k + 1 < Len(nodes)
          /\ At(nodes, k + 1).t = "OPERAND" /\ At(nodes, k + 1).v \in BUILTIN_TYPES
       THEN [i |-> extract_type_info(nodes, k).idx, cur |-> cur, err |-> NoError]
       ELSE [i |-> k + 1, cur |-> cur \o <<":">>, err |-> NoError]

\* the scan of a bracket's contents from index j at depth 1: the tokens up
\* to the matching OPERAND ']' or the line end, and the index where it stopped
RECURSIVE BracketScan(_, _, _, _)
BracketScan(nodes, j, bracket_depth, bracket_content) ==
    IF j < Len(nodes) /\ bracket_depth > 0 /\ At(nodes, j).t # "EOL"
    THEN LET n == At(nodes, j) IN
         IF IsOperand(n, <<"[">>)
         THEN BracketScan(nodes, j + 1, bracket_depth + 1, Append(bracket_content, n))
         ELSE IF IsOperand(n, <<"]">>)
         THEN IF bracket_depth = 1
              THEN [content |-> bracket_content, j |-> j]
              ELSE BracketScan(nodes, j + 1, bracket_depth - 1, Append(bracket_content, n))
         ELSE BracketScan(nodes, j + 1, bracket_depth, Append(bracket_content, n))
    ELSE [content |-> bracket_content, j |-> j]

CountOperand(tokens, value) == Cardinality({k \in 1..Len(tokens) : IsOperand(tokens[k], value)})

\* bracket_content split at every OPERAND ','; a trailing empty part is dropped
RECURSIVE SliceParts(_, _, _)
SliceParts(tokens, slice_parts, current_part) ==
    IF tokens = <<>>
    THEN IF current_part # <<>> THEN Append(slice_parts, current_part) ELSE slice_parts
    ELSE IF IsOperand(Head(tokens), <<",">>)
    THEN SliceParts(Tail(tokens), Append(slice_parts, current_part), <<>>)
    ELSE SliceParts(Tail(tokens), slice_parts, Append(current_part, Head(tokens)))

\* has_dict: some OPERAND '[' of the contents is followed by an OPERAND ':'
\* before the next OPERAND ']'
HasDict(bracket_content) ==
    \E idx \in 1..Len(bracket_content) :
        /\ IsOperand(bracket_content[idx], <<"[">>)
        /\ \E c \in (idx + 1)..Len(bracket_content) :
              /\ IsOperand(bracket_content[c], <<":">>)
              /\ \A m \in (idx + 1)..(c - 1) : ~IsOperand(bracket_content[m], <<"]">>)

\* what a '[' that stands in literal position emits, or the error it raises
LiteralOpen(bracket_content, has_colon_pair) ==
    IF has_colon_pair THEN [text |-> <<"{">>, err |-> NoError]
    ELSE IF HasDict(bracket_content)
    THEN [text |-> <<>>,
          err |-> BlockError("Cannot use dict (unhashable) type in set/list literal", <<>>)]
    ELSE [text |-> <<"[">>, err |-> NoError]

\* the inclusive two-part slice: [start:end+1]
SliceText(slice_parts) ==
    <<"[">> \o JoinPy(slice_parts[1]) \o <<":">> \o JoinPy(slice_parts[2]) \o Lit.plus1_bracket

\* node k is the OPERAND '['
EmitOpenBracket(nodes, k, cur, cv) ==
    LET scan == BracketScan(nodes, k + 1, 1, <<>>)
        bracket_content == scan.content
        j == scan.j
        is_after_var == k > 0 /\ At(nodes, k - 1).t = "OPERAND"
                        /\ At(nodes, k - 1).v \notin not_a_name
        is_collection == is_after_var /\ At(nodes, k - 1).v \in cv
        has_colon_pair == CountOperand(bracket_content, <<":">>) > 0
        has_comma == CountOperand(bracket_content, <<",">>) > 0
        is_empty == Len(bracket_content) = 0
        slice_parts == SliceParts(bracket_content, <<>>, <<>>)
        lit == LiteralOpen(bracket_content, has_colon_pair)
    IN IF is_after_var /\ is_collection
       THEN IF is_empty
            THEN [i |-> j + 1, cur |-> cur \o Lit.copy, err |-> NoError]
            ELSE IF has_comma /\ ~has_colon_pair /\ Len(slice_parts) = 2
            THEN [i |-> j + 1, cur |-> cur \o SliceText(slice_parts), err |-> NoError]
            ELSE [i |-> k + 1, cur |-> cur \o <<"[">>, err |-> NoError]
       ELSE IF is_after_var
       THEN [i |-> k + 1, cur |-> cur \o <<"(">>, err |-> NoError]
       ELSE [i |-> k + 1, cur |-> cur \o lit.text, err |-> lit.err]

\* the backward scan of current_line at an OPERAND ']': the closing
\* character to append; k runs from len(current_line) down to 1
RECURSIVE CloserFor(_, _, _, _, _)
CloserFor(cur, k, paren_count, bracket_count, brace_count) ==
    IF k = 0 THEN "]"
    ELSE LET c == cur[k] IN
      IF c = ")" THEN CloserFor(cur, k - 1, paren_count + 1, bracket_count, brace_count)
      ELSE IF c = "("
      THEN IF paren_count - 1 < 0 THEN ")"
           ELSE CloserFor(cur, k - 1, paren_count - 1, bracket_count, brace_count)
      ELSE IF c = "]" THEN CloserFor(cur, k - 1, paren_count, bracket_count + 1, brace_count)
      ELSE IF c = "["
      THEN IF bracket_count - 1 < 0 THEN "]"
           ELSE CloserFor(cur, k - 1, paren_count, bracket_count - 1, brace_count)
      ELSE IF c = "}" THEN CloserFor(cur, k - 1, paren_count, bracket_count, brace_count + 1)
      ELSE IF c = "{"
      THEN IF brace_count - 1 < 0 THEN "}"
           ELSE CloserFor(cur, k - 1, paren_count, bracket_count, brace_count - 1)
      ELSE CloserFor(cur, k - 1, paren_count, bracket_count, brace_count)

\* node k is the OPERAND ']'
EmitCloseBracket(nodes, k, cur) ==
    [i |-> k + 1, cur |-> cur \o <<CloserFor(cur, Len(cur), 0, 0, 0)>>, err |-> NoError]

\* node k is an OPERAND whose value is alphabetic or '_'
EmitIdentifier(nodes, k, cur, ts) ==
    LET value    == At(nodes, k).v
        prefixed == [i |-> k + 1, cur |-> cur \o Lit.block_ \o value, err |-> NoError]
        raise(text) == [i |-> k, cur |-> cur, err |-> BlockError(text, value)]
    IN IF value \in DOMAIN BUILTIN_CONSTANTS
       THEN [i |-> k + 1, cur |-> cur \o BUILTIN_CONSTANTS[value][2], err |-> NoError]
       ELSE IF value \in BUILTIN_FUNCTIONS
       THEN [i |-> k + 1, cur |-> cur \o value, err |-> NoError]
       ELSE IF k + 1 < Len(nodes)
       THEN LET next_token == At(nodes, k + 1) IN
            IF IsOperator(next_token, <<"(">>)
            THEN IF ~is_defined_function(ts, value)
                 THEN raise("Undefined function ") ELSE prefixed
            ELSE IF IsOperator(next_token, <<"=">>) THEN prefixed
            ELSE IF IsOperand(next_token, <<":">>) THEN prefixed
            ELSE IF ~is_defined_variable(ts, value) /\ ~is_defined_function(ts, value)
                 THEN raise("Undefined identifier ") ELSE prefixed
       ELSE prefixed

\* node k is an OPERAND
EmitOperand(nodes, k, cur, ts, cv) ==
    LET node == At(nodes, k) IN
    IF node.v = <<":">> THEN EmitColon(nodes, k, cur)
    ELSE IF node.v = <<"[">> THEN EmitOpenBracket(nodes, k, cur, cv)
    ELSE IF node.v = <<"]">> THEN EmitCloseBracket(nodes, k, cur)
    ELSE IF IsAlpha(node.v) \/ node.v = <<"_">> THEN EmitIdentifier(nodes, k, cur, ts)
    ELSE [i |-> k + 1, cur |-> cur \o node.py, err |-> NoError]

\* one iteration of the second pass's while loop at a node that is not EOL
EmitNode(nodes, k, cur, ts, cv) ==
    LET node == At(nodes, k) IN
    IF node.t = "SPACE" THEN [i |-> k + 1, cur |-> cur \o node.py, err |-> NoError]
    ELSE IF node.t = "KEYWORD" THEN EmitKeyword(nodes, k, cur)
    ELSE IF node.t = "OPERAND" THEN EmitOperand(nodes, k, cur, ts, cv)
    ELSE [i |-> k + 1, cur |-> cur \o node.py, err |-> NoError]

\* ----------------------------------------------------------------- inputs

\* the largest number written in a generated literal
MaxNum == 2

\* the largest magnitude of a negative literal
MaxNeg == 1

\* the number of declaration lines around the line under test
MaxDecls == 1

\* the number of transpile calls in one process (SpecCalls)
MaxCalls == 2

\* integer literals as written in the source: plain, negative, with a leading zero
IntLits ==
    {StrOfInt(n) : n \in (0 - MaxNeg)..MaxNum} \cup {<<"0">> \o StrOfInt(n) : n \in 1..MaxNum}

\* for i in A..B:
ForRangeLine(a, b) ==
    <<"f","o","r"," ","i"," ","i","n"," ">> \o a \o <<".",".">> \o b \o <<":">>

\* y = v[S, E]
SliceLine(s, e) == <<"y"," ","="," ","v","[">> \o s \o <<","," ">> \o e \o <<"]">>

\* lines that declare a name:
\* v = [1, 2, 3, 4]
\* x = 5
\* fn f [a:num, b=2]:num
\* x:num = 5
\* v:[num] = [1]
\* x1 = 1
DeclLines ==
    { <<"v"," ","="," ","[","1",","," ","2",","," ","3",","," ","4","]">>,
      <<"x"," ","="," ","5">>,
      <<"f","n"," ","f"," ","[","a",":","n","u","m",","," ","b","=","2","]",":","n","u","m">>,
      <<"x",":","n","u","m"," ","="," ","5">>,
      <<"v",":","[","n","u","m","]"," ","="," ","[","1","]">>,
      <<"x","1"," ","="," ","1">> }

\* lines that use names, brackets and keywords:
\* y = x
\* y = x1
\* y = a_b
\* y = x + 1
\* y = f[1]
\* y = v[0]
\* y = v[]
\* for i in v:
\* for i in v[0, 1]:
\* for i in f[5]:
\* echo["hi"]
\* print["hi"]
\* print[x]
\* strToUpper[x]
\* y = [["a": 1]]
\* y = [1, ["a": 1]]
\* y = [1, [2]]
\* y = ["a": 1]
\* y = [1, 2]
\* y = ²
\*   -> a + b
\* if x == 1
\* if x == 1:
\* y = true
UseLines ==
    { <<"y"," ","="," ","x">>,
      <<"y"," ","="," ","x","1">>,
      <<"y"," ","="," ","a","_","b">>,
      <<"y"," ","="," ","x"," ","+"," ","1">>,
      <<"y"," ","="," ","f","[","1","]">>,
      <<"y"," ","="," ","v","[","0","]">>,
      <<"y"," ","="," ","v","[","]">>,
      <<"f","o","r"," ","i"," ","i","n"," ","v",":">>,
      <<"f","o","r"," ","i"," ","i","n"," ","v","[","0",","," ","1","]",":">>,
      <<"f","o","r"," ","i"," ","i","n"," ","f","[","5","]",":">>,
      <<"e","c","h","o","[","\"","h","i","\"","]">>,
      <<"p","r","i","n","t","[","\"","h","i","\"","]">>,
      <<"p","r","i","n","t","[","x","]">>,
      <<"s","t","r","T","o","U","p","p","e","r","[","x","]">>,
      <<"y"," ","="," ","[","[","\"","a","\"",":"," ","1","]","]">>,
      <<"y"," ","="," ","[","1",","," ","[","\"","a","\"",":"," ","1","]","]">>,
      <<"y"," ","="," ","[","1",","," ","[","2","]","]">>,
      <<"y"," ","="," ","[","\"","a","\"",":"," ","1","]">>,
      <<"y"," ","="," ","[","1",","," ","2","]">>,
      <<"y"," ","="," ","²">>,
      <<" "," ","-",">"," ","a"," ","+"," ","b">>,
      <<"i","f"," ","x"," ","=","="," ","1">>,
      <<"i","f"," ","x"," ","=","="," ","1",":">>,
      <<"y"," ","="," ","t","r","u","e">> }

\* the sequences of at most n declaration lines
RECURSIVE DeclSeqs(_)
DeclSeqs(n) ==
    IF n = 0 THEN {<<>>}
    ELSE DeclSeqs(n - 1) \cup {Append(ds, d) : ds \in DeclSeqs(n - 1), d \in DeclLines}

\* a line under test with at most MaxDecls declaration lines before and after it
LineInContext ==
    {p \in {pre \o <<l>> \o suf : l \in DeclLines \cup UseLines, pre, suf \in DeclSeqs(MaxDecls)} :
        Len(p) <= MaxDecls + 1}

\* v = [1, 2, 3, 4]
ListDecl == <<"v"," ","="," ","[","1",","," ","2",","," ","3",","," ","4","]">>

\* a range or slice line alone, after the declaration of the list v, or before it
NumericLines ==
    LET ls == {ForRangeLine(a, b) : a, b \in IntLits} \cup {SliceLine(s, e) : s, e \in IntLits}
    IN {<<l>> : l \in ls} \cup {<<ListDecl, l>> : l \in ls} \cup {<<l, ListDecl>> : l \in ls}

ProgramLines == LineInContext \cup NumericLines

Programs == {JoinLines(p) : p \in ProgramLines}

\* the programs of a process that makes several calls:
\* v = [1, 2, 3, 4]
\* x = 5
\* fn f [a:num, b=2]:num
\* y = x
\* y = v[0]
\* y = v[0, 1]
\* y = f[1]
\* for i in v:
\* print[x]
\* y = ²
\* y = [1, 2]
\* x:num = 5\nv = [x]
CallPrograms ==
    { <<"v"," ","="," ","[","1",","," ","2",","," ","3",","," ","4","]">>,
      <<"x"," ","="," ","5">>,
      <<"f","n"," ","f"," ","[","a",":","n","u","m",","," ","b","=","2","]",":","n","u","m">>,
      <<"y"," ","="," ","x">>,
      <<"y"," ","="," ","v","[","0","]">>,
      <<"y"," ","="," ","v","[","0",","," ","1","]">>,
      <<"y"," ","="," ","f","[","1","]">>,
      <<"f","o","r"," ","i"," ","i","n"," ","v",":">>,
      <<"p","r","i","n","t","[","x","]">>,
      <<"y"," ","="," ","²">>,
      <<"y"," ","="," ","[","1",","," ","2","]">>,
      <<"x",":","n","u","m"," ","="," ","5","\n","v"," ","="," ","[","x","]">> }

\* the declaration NAME:TYPE = value of the variable x
TypedDecl(type, value) == <<"x", ":">> \o type \o <<" ", "=", " ">> \o value

\* the annotations of the typed declarations: foo, [num, num, [num], list
DeclTypes == { <<"f","o","o">>, <<"[","n","u","m">>, Lit.num, <<"[","n","u","m","]">>, Lit.list }

\* the right-hand sides of the typed declarations: 1, [1]
DeclValues == { <<"1">>, <<"[", "1", "]">> }

\* a typed declaration of x alone, after y = 1 or x = 5, and before z = x
TypedPrograms ==
    { pre \o <<TypedDecl(t, v)>> \o suf :
        pre \in { <<>>, <<<<"y"," ","="," ","1">>>>, <<<<"x"," ","="," ","5">>>> },
        t \in DeclTypes, v \in DeclValues,
        suf \in { <<>>, <<<<"z"," ","="," ","x">>>> } }

\* lines whose '[' is not closed, and two that close it:
\* y = v[
\* y = v[0, 1
\* y = v[0
\* fn f [a, b
\* fn f [a=1
\* y = [1, 2
\* y = v[0, 1]
\* fn f [a=1]
BracketLines ==
    { <<"y"," ","="," ","v","[">>,
      <<"y"," ","="," ","v","[","0",","," ","1">>,
      <<"y"," ","="," ","v","[","0">>,
      <<"f","n"," ","f"," ","[","a",","," ","b">>,
      <<"f","n"," ","f"," ","[","a","=","1">>,
      <<"y"," ","="," ","[","1",","," ","2">>,
      <<"y"," ","="," ","v","[","0",","," ","1","]">>,
      <<"f","n"," ","f"," ","[","a","=","1","]">> }

\* a line of BracketLines after the declaration v = [1, 2], alone or before z = 3
UnclosedPrograms ==
    { <<<<"v"," ","="," ","[","1",","," ","2","]">>, l>> \o suf : l \in BracketLines, suf \in { <<>>, <<<<"z"," ","="," ","3">>>> } }

\* the declarations of x: x = [1, 2], x = 5, x = (1, 2)
Declarations == { <<"x"," ","="," ","[","1",","," ","2","]">>, <<"x"," ","="," ","5">>, <<"x"," ","="," ","(","1",","," ","2",")">> }

\* the bracket uses of x: y = x[0, 1], y = x[]
BracketUses == { <<"y"," ","="," ","x","[","0",","," ","1","]">>, <<"y"," ","="," ","x","[","]">> }

\* a bracket use of x after a declaration of x, and another declaration of x
\* between them or after the use
RedeclaredPrograms ==
    { <<d, u>> : d \in Declarations, u \in BracketUses }
    \cup { <<d, e, u>> : d \in Declarations, e \in Declarations, u \in BracketUses }
    \cup { <<d, u, e>> : d \in Declarations, e \in Declarations, u \in BracketUses }

\* the programs with a declaration or a bracket the other programs lack
EdgePrograms ==
    {JoinLines(p) : p \in TypedPrograms \cup UnclosedPrograms \cup RedeclaredPrograms}

\* programs around one construct each:
\* a declaration of x with each opening delimiter, untyped or typed, and the use y = x[0]:
\*     x = [1, 2]\ny = x[0]
\*     x = (1, 2)\ny = x[0]
\*     x = {1, 2}\ny = x[0]
\*     y = x[0]\nx = [1, 2]
\*     y = x[0]\nx = (1, 2)
\*     y = x[0]\nx = {1, 2}
\*     z = 1\nx:list = [1, 2]\ny = x[0]
\*     z = 1\nx:tuple = (1, 2)\ny = x[0]
\*     z = 1\nx:set = {1, 2}\ny = x[0]
\*     x = 5\ny = x[0]
\* a bracket after the function f: in an assignment, a for header, a subscript, a slice and a default value:
\*     fn f [a]\ny = f[1]
\*     fn f [a]\ny = 1 + f[1]
\*     fn f [a]\nfor i in f[5]:
\*     fn f [a]\nv = [1, 2]\ny = v[f[1]]
\*     fn f [a]\nv = [1, 2]\ny = v[f[1], 2]
\*     fn f [a]\nfn g [b=f[1]]
\* brackets next to string literals that hold a bracket character, and next to '(' ')' '{' '}':
\*     y = ["("]
\*     y = [")"]
\*     y = ["a", "("]
\*     y = ["["]
\*     y = [(1)]
\*     y = [{1}]
\*     y = [[1], [2]]
\*     y = ["a": [1]]
\*     fn f [a]\ny = f["{"]
\*     fn f [a]\ny = f["["]
\*     fn f [a]\ny = (f[1])
\*     fn f [a]\ny = f[(1)]
\*     fn f [a]\ny = [f[1], 2]
\* lines that open a block, with and without the final ':', and with a bracket left open:
\*     x = 1\nif x
\*     x = 1\nif x:
\*     x = 1\nelif x
\*     x = 1\nelif x:
\*     x = 1\nwhile x
\*     x = 1\nwhile x:
\*     x = 1\n  if x
\*     x = 1\nif x == 1: y = 2
\*     fn g [b]
\*     fn g [b]:
\*     fn g [b]:num
\*     v = [1, 2]\nif v[]
\*     v = [1, 2]\nif v[0, 1]:
\*     v = [1, 2]\nif v[
\*     v = [1, 2]\nif v[0, 1
\*     v = [1, 2]\ny = v[\nif v
\*     fn g [b=1
\* lines indented with spaces, with a tab, and with both:
\*       x = 1
\*     \tx = 1
\*     x = 1\n  y = 2
\*     x = 1\n\ty = 2
\*     x = 1\n \ty = 2
\*     x = 1\n\t\ty = 2
\*     x = 1\n    if x
\* untyped declarations whose right-hand side starts with each kind of token:
\*     s = "a"
\*     n = 1
\*     n = -1
\*     b = true
\*     c = none
\*     l = [1]
\*     t = (1, 2)
\*     u = {1}
\*     g = print
\*     fn f [a]\ng = f
\*     y = +1
\*     s = "a"\nt = s
\*     n = 1\nm = n
\* a function whose body uses its parameters: plain, annotated and defaulted:
\*     fn f [a]\n  -> a
\*     fn f [a:num]\n  -> a
\*     fn f [a=1]\n  -> a
\*     fn f [a, b]\n  -> a + b
\*     fn f [a:num, b]\n  -> b
\*     fn f [a:num, b=2]\n  -> a + b
\*     fn f [a]\n  y = a
\* the keyword in, inside a for header and as the membership test:
\*     v = [1]\nfor i in v:
\*     v = [1]\nx = 1\nif x in v
\*     v = [1]\nx = 1\nif x in v:
\*     v = [1]\nx = 1\nwhile x in v
\*     v = [1]\nx = 1\ny = x in v
\*     v = [1]\nif 1 in v
\*     x = 1\n-> x
ContextPrograms ==
    { <<"x"," ","="," ","[","1",","," ","2","]","\n","y"," ","="," ","x","[","0","]">>,
      <<"x"," ","="," ","(","1",","," ","2",")","\n","y"," ","="," ","x","[","0","]">>,
      <<"x"," ","="," ","{","1",","," ","2","}","\n","y"," ","="," ","x","[","0","]">>,
      <<"y"," ","="," ","x","[","0","]","\n","x"," ","="," ","[","1",","," ","2","]">>,
      <<"y"," ","="," ","x","[","0","]","\n","x"," ","="," ","(","1",","," ","2",")">>,
      <<"y"," ","="," ","x","[","0","]","\n","x"," ","="," ","{","1",","," ","2","}">>,
      <<"z"," ","="," ","1","\n","x",":","l","i","s","t"," ","="," ","[","1",","," ","2","]","\n","y"," ","="," ","x","[","0","]">>,
      <<"z"," ","="," ","1","\n","x",":","t","u","p","l","e"," ","="," ","(","1",","," ","2",")","\n","y"," ","="," ","x","[","0","]">>,
      <<"z"," ","="," ","1","\n","x",":","s","e","t"," ","="," ","{","1",","," ","2","}","\n","y"," ","="," ","x","[","0","]">>,
      <<"x"," ","="," ","5","\n","y"," ","="," ","x","[","0","]">>,
      <<"f","n"," ","f"," ","[","a","]","\n","y"," ","="," ","f","[","1","]">>,
      <<"f","n"," ","f"," ","[","a","]","\n","y"," ","="," ","1"," ","+"," ","f","[","1","]">>,
      <<"f","n"," ","f"," ","[","a","]","\n","f","o","r"," ","i"," ","i","n"," ","f","[","5","]",":">>,
      <<"f","n"," ","f"," ","[","a","]","\n","v"," ","="," ","[","1",","," ","2","]","\n","y"," ","="," ","v","[","f","[","1","]","]">>,
      <<"f","n"," ","f"," ","[","a","]","\n","v"," ","="," ","[","1",","," ","2","]","\n","y"," ","="," ","v","[","f","[","1","]",","," ","2","]">>,
      <<"f","n"," ","f"," ","[","a","]","\n","f","n"," ","g"," ","[","b","=","f","[","1","]","]">>,
      <<"y"," ","="," ","[","\"","(","\"","]">>,
      <<"y"," ","="," ","[","\"",")","\"","]">>,
      <<"y"," ","="," ","[","\"","a","\"",","," ","\"","(","\"","]">>,
      <<"y"," ","="," ","[","\"","[","\"","]">>,
      <<"y"," ","="," ","[","(","1",")","]">>,
      <<"y"," ","="," ","[","{","1","}","]">>,
      <<"y"," ","="," ","[","[","1","]",","," ","[","2","]","]">>,
      <<"y"," ","="," ","[","\"","a","\"",":"," ","[","1","]","]">>,
      <<"f","n"," ","f"," ","[","a","]","\n","y"," ","="," ","f","[","\"","{","\"","]">>,
      <<"f","n"," ","f"," ","[","a","]","\n","y"," ","="," ","f","[","\"","[","\"","]">>,
      <<"f","n"," ","f"," ","[","a","]","\n","y"," ","="," ","(","f","[","1","]",")">>,
      <<"f","n"," ","f"," ","[","a","]","\n","y"," ","="," ","f","[","(","1",")","]">>,
      <<"f","n"," ","f"," ","[","a","]","\n","y"," ","="," ","[","f","[","1","]",","," ","2","]">>,
      <<"x"," ","="," ","1","\n","i","f"," ","x">>,
      <<"x"," ","="," ","1","\n","i","f"," ","x",":">>,
      <<"x"," ","="," ","1","\n","e","l","i","f"," ","x">>,
      <<"x"," ","="," ","1","\n","e","l","i","f"," ","x",":">>,
      <<"x"," ","="," ","1","\n","w","h","i","l","e"," ","x">>,
      <<"x"," ","="," ","1","\n","w","h","i","l","e"," ","x",":">>,
      <<"x"," ","="," ","1","\n"," "," ","i","f"," ","x">>,
      <<"x"," ","="," ","1","\n","i","f"," ","x"," ","=","="," ","1",":"," ","y"," ","="," ","2">>,
      <<"f","n"," ","g"," ","[","b","]">>,
      <<"f","n"," ","g"," ","[","b","]",":">>,
      <<"f","n"," ","g"," ","[","b","]",":","n","u","m">>,
      <<"v"," ","="," ","[","1",","," ","2","]","\n","i","f"," ","v","[","]">>,
      <<"v"," ","="," ","[","1",","," ","2","]","\n","i","f"," ","v","[","0",","," ","1","]",":">>,
      <<"v"," ","="," ","[","1",","," ","2","]","\n","i","f"," ","v","[">>,
      <<"v"," ","="," ","[","1",","," ","2","]","\n","i","f"," ","v","[","0",","," ","1">>,
      <<"v"," ","="," ","[","1",","," ","2","]","\n","y"," ","="," ","v","[","\n","i","f"," ","v">>,
      <<"f","n"," ","g"," ","[","b","=","1">>,
      <<" "," ","x"," ","="," ","1">>,
      <<"\t","x"," ","="," ","1">>,
      <<"x"," ","="," ","1","\n"," "," ","y"," ","="," ","2">>,
      <<"x"," ","="," ","1","\n","\t","y"," ","="," ","2">>,
      <<"x"," ","="," ","1","\n"," ","\t","y"," ","="," ","2">>,
      <<"x"," ","="," ","1","\n","\t","\t","y"," ","="," ","2">>,
      <<"x"," ","="," ","1","\n"," "," "," "," ","i","f"," ","x">>,
      <<"s"," ","="," ","\"","a","\"">>,
      <<"n"," ","="," ","1">>,
      <<"n"," ","="," ","-","1">>,
      <<"b"," ","="," ","t","r","u","e">>,
      <<"c"," ","="," ","n","o","n","e">>,
      <<"l"," ","="," ","[","1","]">>,
      <<"t"," ","="," ","(","1",","," ","2",")">>,
      <<"u"," ","="," ","{","1","}">>,
      <<"g"," ","="," ","p","r","i","n","t">>,
      <<"f","n"," ","f"," ","[","a","]","\n","g"," ","="," ","f">>,
      <<"y"," ","="," ","+","1">>,
      <<"s"," ","="," ","\"","a","\"","\n","t"," ","="," ","s">>,
      <<"n"," ","="," ","1","\n","m"," ","="," ","n">>,
      <<"f","n"," ","f"," ","[","a","]","\n"," "," ","-",">"," ","a">>,
      <<"f","n"," ","f"," ","[","a",":","n","u","m","]","\n"," "," ","-",">"," ","a">>,
      <<"f","n"," ","f"," ","[","a","=","1","]","\n"," "," ","-",">"," ","a">>,
      <<"f","n"," ","f"," ","[","a",","," ","b","]","\n"," "," ","-",">"," ","a"," ","+"," ","b">>,
      <<"f","n"," ","f"," ","[","a",":","n","u","m",","," ","b","]","\n"," "," ","-",">"," ","b">>,
      <<"f","n"," ","f"," ","[","a",":","n","u","m",","," ","b","=","2","]","\n"," "," ","-",">"," ","a"," ","+"," ","b">>,
      <<"f","n"," ","f"," ","[","a","]","\n"," "," ","y"," ","="," ","a">>,
      <<"v"," ","="," ","[","1","]","\n","f","o","r"," ","i"," ","i","n"," ","v",":">>,
      <<"v"," ","="," ","[","1","]","\n","x"," ","="," ","1","\n","i","f"," ","x"," ","i","n"," ","v">>,
      <<"v"," ","="," ","[","1","]","\n","x"," ","="," ","1","\n","i","f"," ","x"," ","i","n"," ","v",":">>,
      <<"v"," ","="," ","[","1","]","\n","x"," ","="," ","1","\n","w","h","i","l","e"," ","x"," ","i","n"," ","v">>,
      <<"v"," ","="," ","[","1","]","\n","x"," ","="," ","1","\n","y"," ","="," ","x"," ","i","n"," ","v">>,
      <<"v"," ","="," ","[","1","]","\n","i","f"," ","1"," ","i","n"," ","v">>,
      <<"x"," ","="," ","1","\n","-",">"," ","x">> }

\* ---------------------------------------------------------- transpile

\* a result is [kind, text, msg]: "ok" with the returned text, or "BlockError"
\* with the message, as [prefix, text, arg]
NoMessage == [prefix |-> "", text |-> "", arg |-> <<>>]

NoResult == [kind |-> "none", text |-> <<>>, msg |-> NoMessage]

Returned(text) == [kind |-> "ok", text |-> text, msg |-> NoMessage]

\* an exception that leaves transpile as it was raised
RaisedAsIs(err) ==
    [kind |-> err.kind, text |-> <<>>,
     msg |-> [prefix |-> "", text |-> err.text, arg |-> err.arg]]

\* what transpile raises for an exception err raised inside its try block:
\* a BlockError is re-raised, anything else is wrapped in a BlockError
Raised(err) ==
    IF err.kind = "BlockError"
    THEN [kind |-> "BlockError", text |-> <<>>,
          msg |-> [prefix |-> "", text |-> err.text, arg |-> err.arg]]
    ELSE [kind |-> "BlockError", text |-> <<>>,
          msg |-> [prefix |-> "Transpilation error: ", text |-> err.text, arg |-> err.arg]]

\* the exception linesToAst ends with, if any: NUMBER(int(num_str)) or
\* NUMBER(float(num_str)) raising ValueError in tokenize_line
AstError(nodes) ==
    LET bad == {k \in 1..Len(nodes) : nodes[k].t = "ValueError"}
    IN IF bad = {} THEN NoError
       ELSE [kind |-> "ValueError", text |-> "invalid literal: ",
             arg |-> nodes[CHOOSE k \in bad : \A m \in bad : k <= m].v]

\* a TypeSystem and a Collection-Variable Set that outlive the call
AstToPyLocalsKept(prev) == prev

\* the TypeSystem and the Collection-Variable Set astToPy constructs on
\* entry; prev is what the previous call in this process left behind
AstToPyLocals(prev) == [ts |-> NewTypeSystem, cv |-> {}]

\* the text astToPy returns after its second loop
AstToPyReturn(code, cur) == JoinLines(IF cur # <<>> THEN Append(code, cur) ELSE code)

\* transpile(source) is called
Transpile(src) ==
    /\ pc = "idle"
    /\ calls' = calls + 1
    /\ source' = src
    /\ LET nodes  == linesToAst(sourceToLine(src))
           locals == AstToPyLocals([ts |-> type_system, cv |-> collection_variables])
       IN IF AstError(nodes) # NoError
          THEN /\ pc' = "done"
               /\ result' = Raised(AstError(nodes))
               /\ UNCHANGED <<ast_nodes, i, type_system, collection_variables>>
          ELSE /\ pc' = "pass1"
               /\ ast_nodes' = nodes
               /\ i' = 0
               /\ type_system' = locals.ts
               /\ collection_variables' = locals.cv
               /\ result' = NoResult
    /\ UNCHANGED <<current_line, python_code, history>>
    /\ UNCHANGED unit_vars
    /\ UNCHANGED cli_vars

\* the first pass: its while loop runs to the end or to the exception it
\* raises; then the second pass's variables are initialised
FirstPass ==
    /\ pc = "pass1"
    /\ LET r == FirstPassRun(ast_nodes, 0, type_system, collection_variables)
       IN /\ type_system' = r.ts
          /\ collection_variables' = r.cv
          /\ IF r.err # NoError
             THEN /\ pc' = "done"
                  /\ result' = Raised(r.err)
                  /\ UNCHANGED <<i, current_line, python_code>>
             ELSE /\ pc' = "pass2"
                  /\ python_code' = <<>>
                  /\ current_line' = <<>>
                  /\ i' = 0
                  /\ UNCHANGED result
    /\ UNCHANGED <<calls, source, ast_nodes, history>>
    /\ UNCHANGED unit_vars
    /\ UNCHANGED cli_vars

\* an iteration of the second pass that declares the operand it emits
SecondPassStepDeclaring ==
    /\ pc = "pass2"
    /\ i < Len(ast_nodes)
    /\ IF At(ast_nodes, i).t = "EOL"
       THEN /\ python_code' = Append(python_code, LineAtEOL(current_line))
            /\ current_line' = <<>>
            /\ i' = i + 1
            /\ UNCHANGED <<pc, result, type_system>>
       ELSE LET r == EmitNode(ast_nodes, i, current_line, type_system, collection_variables)
            IN /\ current_line' = r.cur
               /\ i' = r.i
               /\ IF r.err # NoError
                  THEN pc' = "done" /\ result' = Raised(r.err)
                  ELSE UNCHANGED <<pc, result>>
               /\ type_system' = IF At(ast_nodes, i).t = "OPERAND"
                                 THEN define_variable(type_system, At(ast_nodes, i).v, Lit.num).ts
                                 ELSE type_system
               /\ UNCHANGED python_code
    /\ UNCHANGED <<calls, source, ast_nodes, collection_variables, history>>
    /\ UNCHANGED unit_vars
    /\ UNCHANGED cli_vars

\* one iteration of the second pass
SecondPassStep ==
    /\ pc = "pass2"
    /\ i < Len(ast_nodes)
    /\ IF At(ast_nodes, i).t = "EOL"
       THEN /\ python_code' = Append(python_code, LineAtEOL(current_line))
            /\ current_line' = <<>>
            /\ i' = i + 1
            /\ UNCHANGED <<pc, result>>
       ELSE LET r == EmitNode(ast_nodes, i, current_line, type_system, collection_variables)
            IN /\ current_line' = r.cur
               /\ i' = r.i
               /\ IF r.err # NoError
                  THEN pc' = "done" /\ result' = Raised(r.err)
                  ELSE UNCHANGED <<pc, result>>
               /\ UNCHANGED python_code
    /\ UNCHANGED <<calls, source, ast_nodes, type_system, collection_variables, history>>
    /\ UNCHANGED unit_vars
    /\ UNCHANGED cli_vars

\* the second loop has ended: astToPy and transpile return the text
Return ==
    /\ pc = "pass2"
    /\ i >= Len(ast_nodes)
    /\ pc' = "done"
    /\ result' = Returned(AstToPyReturn(python_code, current_line))
    /\ UNCHANGED <<calls, source, ast_nodes, i, type_system, collection_variables,
                   current_line, python_code, history>>
    /\ UNCHANGED unit_vars
    /\ UNCHANGED cli_vars

\* the caller goes on to another transpile call in the same process
NextCall ==
    /\ pc = "done"
    /\ calls < MaxCalls
    /\ pc' = "idle"
    /\ history' = Append(history, <<source, result>>)
    /\ UNCHANGED <<calls, source, ast_nodes, i, type_system, collection_variables,
                   current_line, python_code, result>>
    /\ UNCHANGED unit_vars
    /\ UNCHANGED cli_vars

\* no TypeSystem method has been called on its own
NoCall == [op |-> "none", name |-> <<>>, type |-> <<>>, params |-> <<>>, err |-> NoError]

Init ==
    /\ pc = "idle"
    /\ calls = 0
    /\ source = <<>>
    /\ ast_nodes = <<>>
    /\ i = 0
    /\ type_system = NewTypeSystem
    /\ collection_variables = {}
    /\ current_line = <<>>
    /\ python_code = <<>>
    /\ result = NoResult
    /\ history = <<>>
    /\ logical_lines = <<>>
    /\ line_content = <<>>
    /\ line_tokens = <<>>
    /\ api = NoCall
    /\ chunks = <<>>
    /\ files = <<>>
    /\ argv = <<>>
    /\ exit_status = 0 - 1
    /\ stdout = <<>>
    /\ stderr = <<>>

\* one transpile call in a fresh process
Next ==
    \/ \E src \in Programs : Transpile(src)
    \/ FirstPass
    \/ SecondPassStep
    \/ Return

Spec == Init /\ [][Next]_vars

\* up to MaxCalls transpile calls in one process
NextCalls ==
    \/ \E src \in CallPrograms : Transpile(src)
    \/ FirstPass
    \/ SecondPassStep
    \/ Return
    \/ NextCall

SpecCalls == Init /\ [][NextCalls]_vars

\* one transpile call, of a program of EdgePrograms, in a fresh process
NextEdge ==
    \/ \E src \in EdgePrograms : Transpile(src)
    \/ FirstPass
    \/ SecondPassStep
    \/ Return

SpecEdge == Init /\ [][NextEdge]_vars

\* one transpile call, of a program of ContextPrograms, in a fresh process
NextContext ==
    \/ \E src \in ContextPrograms : Transpile(src)
    \/ FirstPass
    \/ SecondPassStep
    \/ Return

SpecContext == Init /\ [][NextContext]_vars

\* ------------------------------------------ the TypeSystem on its own

MaxParams == 2

\* the type strings define_variable is called with:
\* num, foo, [num], (str), {str}, [num, [num}, ''
TypeStrings == { Lit.num, <<"f","o","o">>, <<"[","n","u","m","]">>, <<"(","s","t","r",")">>, <<"{","s","t","r","}">>, <<"[","n","u","m">>, <<"[","n","u","m","}">>, <<>> }

\* the return types define_function is called with: num, foo, [num]
ReturnTypes == { Lit.num, <<"f","o","o">>, <<"[","n","u","m","]">> }

\* the parameter types define_function is called with: num, foo
ParamTypes == { Lit.num, <<"f","o","o">> }

VariableNames == { <<"x">>, <<"y">> }

FunctionNames == { <<"f">> }

\* the parameter lists [(p1, t1), ...] of at most n parameters
RECURSIVE ParamLists(_)
ParamLists(n) ==
    IF n = 0 THEN {<<>>}
    ELSE ParamLists(n - 1)
         \cup {Append(ps, <<<<"p", DigitCh(n)>>, t>>) :
                 ps \in {q \in ParamLists(n - 1) : Len(q) = n - 1}, t \in ParamTypes}

\* the parameter lists define_function is called with
FunctionParams == ParamLists(MaxParams)

\* type_system.define_variable(name, var_type) is called
DefineVariable(name, var_type) ==
    /\ pc = "idle"
    /\ LET r == define_variable(type_system, name, var_type)
       IN /\ type_system' = r.ts
          /\ api' = [op |-> "define_variable", name |-> name, type |-> var_type,
                     params |-> <<>>, err |-> r.err]
    /\ UNCHANGED <<pc, calls, source, ast_nodes, i, collection_variables, current_line,
                   python_code, result, history, logical_lines, line_content, line_tokens,
                   chunks>>
    /\ UNCHANGED cli_vars

\* type_system.define_function(name, return_type, params) is called
DefineFunction(name, return_type, params) ==
    /\ pc = "idle"
    /\ LET r == define_function(type_system, name, return_type, params)
       IN /\ type_system' = r.ts
          /\ api' = [op |-> "define_function", name |-> name, type |-> return_type,
                     params |-> params, err |-> r.err]
    /\ UNCHANGED <<pc, calls, source, ast_nodes, i, collection_variables, current_line,
                   python_code, result, history, logical_lines, line_content, line_tokens,
                   chunks>>
    /\ UNCHANGED cli_vars

\* any sequence of calls of the two methods on one TypeSystem
NextTypes ==
    \/ \E name \in VariableNames, t \in TypeStrings : DefineVariable(name, t)
    \/ \E name \in FunctionNames, t \in ReturnTypes, ps \in FunctionParams :
           DefineFunction(name, t, ps)

SpecTypes == Init /\ [][NextTypes]_vars

\* ------------------------------------------ sourceToLine on its own

MaxUnits == 3

\* the pieces a source text is written from, each one or two physical lines:
\* its text, what it is, and the code it holds once its comments are taken out
\*   'a'                code
\*   'b = "p\nq" + 1'   string
\*   '# c'              line_comment
\*   '/* c */'          block_comment
\*   '/* c\nd */'       block_comment
\*   '/* c\nd */ h'     block_comment
\*   'f /* c */ g'      block_comment
\*   ''                 blank
\*   'e = "u'           open_string
\*   '/* v'             open_comment
\*   'g /* w'           open_comment
LexUnits ==
    { [text |-> <<"a">>,
       kind |-> "code", code |-> <<"a">>],
      [text |-> <<"b"," ","="," ","\"","p","\n","q","\""," ","+"," ","1">>,
       kind |-> "string", code |-> <<"b"," ","="," ","\"","p","\n","q","\""," ","+"," ","1">>],
      [text |-> <<"#"," ","c">>,
       kind |-> "line_comment", code |-> <<>>],
      [text |-> <<"/","*"," ","c"," ","*","/">>,
       kind |-> "block_comment", code |-> <<>>],
      [text |-> <<"/","*"," ","c","\n","d"," ","*","/">>,
       kind |-> "block_comment", code |-> <<>>],
      [text |-> <<"/","*"," ","c","\n","d"," ","*","/"," ","h">>,
       kind |-> "block_comment", code |-> <<" ","h">>],
      [text |-> <<"f"," ","/","*"," ","c"," ","*","/"," ","g">>,
       kind |-> "block_comment", code |-> <<"f"," "," ","g">>],
      [text |-> <<>>,
       kind |-> "blank", code |-> <<>>],
      [text |-> <<"e"," ","="," ","\"","u">>,
       kind |-> "open_string", code |-> <<"e"," ","="," ">>],
      [text |-> <<"/","*"," ","v">>,
       kind |-> "open_comment", code |-> <<>>],
      [text |-> <<"g"," ","/","*"," ","w">>,
       kind |-> "open_comment", code |-> <<"g"," ">>] }

\* the source texts of at most n pieces, as sequences of pieces
RECURSIVE UnitSeqs(_)
UnitSeqs(n) ==
    IF n = 0 THEN {<<>>}
    ELSE UnitSeqs(n - 1)
         \cup {Append(us, u) : us \in {q \in UnitSeqs(n - 1) : Len(q) = n - 1}, u \in LexUnits}

\* '\n'.join of the pieces' texts
UnitsText(us) == JoinLines([k \in 1..Len(us) |-> us[k].text])

\* sourceToLine(source) is called on a text written as the pieces us
SourceToLine(us) ==
    /\ pc = "idle"
    /\ pc' = "lexed"
    /\ chunks' = us
    /\ source' = UnitsText(us)
    /\ logical_lines' = sourceToLine(UnitsText(us))
    /\ UNCHANGED <<calls, ast_nodes, i, type_system, collection_variables, current_line,
                   python_code, result, history, line_content, line_tokens, api>>
    /\ UNCHANGED cli_vars

\* the texts sourceToLine is called with, as sequences of pieces
LexerTexts == UnitSeqs(MaxUnits) \ {<<>>}

\* one call of sourceToLine
NextLexer == pc = "idle" /\ \E us \in LexerTexts : SourceToLine(us)

SpecLexer == Init /\ [][NextLexer]_vars

\* lines that, trimmed, start with a line-comment marker:
\*   '# c'
\*   '>> c'
\*   '// c'
\*   '  # c'
\*   '# "q"'
\*   '# it"s'
\*   '// "'
\*   '# /* c'
\*   '>> c */'
CommentLines ==
    { [text |-> <<"#"," ","c">>,
       kind |-> "line_comment", code |-> <<>>],
      [text |-> <<">",">"," ","c">>,
       kind |-> "line_comment", code |-> <<>>],
      [text |-> <<"/","/"," ","c">>,
       kind |-> "line_comment", code |-> <<>>],
      [text |-> <<" "," ","#"," ","c">>,
       kind |-> "line_comment", code |-> <<>>],
      [text |-> <<"#"," ","\"","q","\"">>,
       kind |-> "line_comment", code |-> <<>>],
      [text |-> <<"#"," ","i","t","\"","s">>,
       kind |-> "line_comment", code |-> <<>>],
      [text |-> <<"/","/"," ","\"">>,
       kind |-> "line_comment", code |-> <<>>],
      [text |-> <<"#"," ","/","*"," ","c">>,
       kind |-> "line_comment", code |-> <<>>],
      [text |-> <<">",">"," ","c"," ","*","/">>,
       kind |-> "line_comment", code |-> <<>>] }

\* one call of sourceToLine on a text that starts with a comment line: the
\* line, a line feed, and a text of at most MaxUnits - 1 pieces (the blank
\* piece alone is the empty text)
NextComments ==
    /\ pc = "idle"
    /\ \E c \in CommentLines, us \in UnitSeqs(MaxUnits - 1) \ {<<>>} : SourceToLine(<<c>> \o us)

SpecComments == Init /\ [][NextComments]_vars

\* ------------------------------------------ tokenize_line on its own

MaxLineLen == 6

\* the characters of the logical lines tokenize_line is called with
LineAlphabet == {"1", ".", "-", " ", "x"}

\* the logical lines of at most n characters
RECURSIVE LinesUpTo(_)
LinesUpTo(n) ==
    IF n = 0 THEN {<<>>}
    ELSE LinesUpTo(n - 1)
         \cup {Append(l, c) : l \in {q \in LinesUpTo(n - 1) : Len(q) = n - 1}, c \in LineAlphabet}

\* tokenize_line(content) is called
TokenizeLine(line) ==
    /\ pc = "idle"
    /\ pc' = "tokenized"
    /\ line_content' = line
    /\ line_tokens' = tokenize_line(line)
    /\ UNCHANGED <<calls, source, ast_nodes, i, type_system, collection_variables,
                   current_line, python_code, result, history, logical_lines, api, chunks>>
    /\ UNCHANGED cli_vars

\* the logical lines tokenize_line is called with
TokenizerLines == LinesUpTo(MaxLineLen)

\* one call of tokenize_line
NextTokenizer == pc = "idle" /\ \E line \in TokenizerLines : TokenizeLine(line)

SpecTokenizer == Init /\ [][NextTokenizer]_vars

\* -------------------------------------------- a call in a fresh process

RECURSIVE SecondPassRun(_, _, _, _, _, _)
SecondPassRun(nodes, k, cur, code, ts, cv) ==
    IF k < Len(nodes)
    THEN IF At(nodes, k).t = "EOL"
         THEN SecondPassRun(nodes, k + 1, <<>>, Append(code, LineAtEOL(cur)), ts, cv)
         ELSE LET r == EmitNode(nodes, k, cur, ts, cv)
              IN IF r.err # NoError THEN Raised(r.err)
                 ELSE SecondPassRun(nodes, r.i, r.cur, code, ts, cv)
    ELSE Returned(AstToPyReturn(code, cur))

\* the result of transpile(src) as a function of src alone
transpile(src) ==
    LET nodes == linesToAst(sourceToLine(src))
        p1    == FirstPassRun(nodes, 0, NewTypeSystem, {})
    IN IF AstError(nodes) # NoError THEN Raised(AstError(nodes))
       ELSE IF p1.err # NoError THEN Raised(p1.err)
       ELSE SecondPassRun(nodes, 0, <<>>, <<>>, p1.ts, p1.cv)

\* ------------------------------------------------- main on its own

\* s.replace(old, new)
RECURSIVE Replace(_, _, _)
Replace(s, old, new) ==
    IF Len(s) < Len(old) THEN s
    ELSE IF SubSeq(s, 1, Len(old)) = old
         THEN new \o Replace(SubSeq(s, Len(old) + 1, Len(s)), old, new)
         ELSE <<Head(s)>> \o Replace(Tail(s), old, new)

\* main() is run with sys.argv = args; a printed line is <<format, values>>,
\* the message of a BlockError is its record.  Both modes hand their source
\* to transpile and report a BlockError alike; Finish is what main does
\* with what transpile returned or raised.
Main(args) ==
    LET inline      == At(args, 1) = <<"-", "c">>
        input_file  == At(args, 1)
        output_file == IF Len(args) > 2 THEN At(args, 2)
                       ELSE Replace(input_file, <<".","b","l","o","c","k">>, <<".","p","y">>)
        Finish(python) ==
            IF python.kind # "ok"
            THEN /\ stderr' = <<<<"Error: ", python.msg>>>>
                 /\ exit_status' = 1
                 /\ UNCHANGED <<files, stdout>>
            ELSE IF inline
            THEN /\ stdout' = <<<<"", python.text>>>>
                 /\ exit_status' = 0
                 /\ UNCHANGED <<files, stderr>>
            ELSE /\ files' = Put(files, output_file, python.text)
                 /\ stdout' = <<<<"Successfully transpiled", input_file, output_file>>>>
                 /\ exit_status' = 0
                 /\ UNCHANGED stderr
    IN /\ pc = "idle"
       /\ pc' = "exited"
       /\ argv' = args
       /\ IF Len(args) < 2
          THEN /\ stdout' = <<<<"Usage">>>>
               /\ exit_status' = 1
               /\ UNCHANGED <<files, stderr>>
          ELSE IF inline /\ Len(args) < 3
          THEN /\ stdout' = <<<<"Error: -c requires code argument">>>>
               /\ exit_status' = 1
               /\ UNCHANGED <<files, stderr>>
          ELSE IF ~inline /\ input_file \notin DOMAIN files
          THEN /\ stderr' = <<<<"Error: File not found", input_file>>>>
               /\ exit_status' = 1
               /\ UNCHANGED <<files, stdout>>
          ELSE Finish(transpile(IF inline THEN At(args, 2) ELSE files[input_file]))
       /\ UNCHANGED <<calls, source, ast_nodes, i, type_system, collection_variables,
                      current_line, python_code, result, history>>
       /\ UNCHANGED unit_vars

\* the paths of the working directory: a.block, a, a.py
Paths == { <<"a",".","b","l","o","c","k">>, <<"a">>, <<"a",".","p","y">> }

\* the working directories: each path absent or holding one of
\* 'x = 1', 'y = x', 'block_x=1'
FileSystems ==
    LET contents == { <<"x"," ","="," ","1">>,
                      <<"y"," ","="," ","x">>,
                      <<"b","l","o","c","k","_","x","=","1">> }
    IN UNION {[ps -> contents] : ps \in SUBSET Paths}

\* the command lines: no argument, -c without code and with the code
\* 'x = 1' or 'y = x', an input file, an input file and an output file
ArgLists ==
    LET prog == <<"b","l","o","c","k","_","t","y","p","e","_","B","a","s","e","d",".","p","y">>
    IN {<<prog>>, <<prog, <<"-", "c">>>>}
       \cup {<<prog, <<"-", "c">>, c>> : c \in {<<"x"," ","="," ","1">>, <<"y"," ","="," ","x">>}}
       \cup {<<prog, a>> : a \in Paths}
       \cup {<<prog, a, b>> : a, b \in Paths}

\* the state before main runs, in any of the working directories
InitCli ==
    /\ pc = "idle"
    /\ calls = 0
    /\ source = <<>>
    /\ ast_nodes = <<>>
    /\ i = 0
    /\ type_system = NewTypeSystem
    /\ collection_variables = {}
    /\ current_line = <<>>
    /\ python_code = <<>>
    /\ result = NoResult
    /\ history = <<>>
    /\ logical_lines = <<>>
    /\ line_content = <<>>
    /\ line_tokens = <<>>
    /\ api = NoCall
    /\ chunks = <<>>
    /\ files \in FileSystems
    /\ argv = <<>>
    /\ exit_status = 0 - 1
    /\ stdout = <<>>
    /\ stderr = <<>>

\* one run of the command-line entry point
NextCli == pc = "idle" /\ \E args \in ArgLists : Main(args)

SpecCli == InitCli /\ [][NextCli]_vars

\* --------------------------------------------------------- observations

\* text.split("\n")
RECURSIVE SplitLines(_)
SplitLines(text) ==
    LET nl == {k \in 1..Len(text) : text[k] = "\n"}
        k  == CHOOSE k \in nl : \A m \in nl : k <= m
    IN IF nl = {} THEN <<text>>
       ELSE <<SubSeq(text, 1, k - 1)>> \o SplitLines(SubSeq(text, k + 1, Len(text)))

\* the lines of the program being transpiled
SourceLines == SplitLines(source)

\* the lines of the text transpile returned, if it returned
OutputLines == IF result.kind = "ok" THEN SplitLines(result.text) ELSE <<>>

\* the output line at the position of source line l
OutLine(l) == IF l <= Len(OutputLines) THEN OutputLines[l] ELSE <<>>

\* the program without its line l
WithoutLine(l) ==
    JoinLines([k \in 1..(Len(SourceLines) - 1) |->
                  IF k < l THEN SourceLines[k] ELSE SourceLines[k + 1]])

\* the other lines of the program transpile without error
RestTranspiles(l) == transpile(WithoutLine(l)).kind = "ok"

\* sub occurs in text
Contains(text, sub) ==
    \E k \in 1..(Len(text) - Len(sub) + 1) : SubSeq(text, k, k + Len(sub) - 1) = sub

Count(text, c) == Cardinality({k \in 1..Len(text) : text[k] = c})

IsWordCh(c) == IsAlnumCh(c) \/ c = "_"

\* the maximal runs of letters, digits and '_' of a text, outside its
\* double-quoted string literals
RECURSIVE WordsFrom(_, _, _, _)
WordsFrom(text, k, cur, quoted) ==
    LET ended == IF cur = <<>> THEN {} ELSE {cur}
    IN IF k > Len(text) THEN ended
       ELSE IF quoted THEN WordsFrom(text, k + 1, <<>>, text[k] # "\"")
       ELSE IF text[k] = "\"" THEN ended \cup WordsFrom(text, k + 1, <<>>, TRUE)
       ELSE IF IsWordCh(text[k]) THEN WordsFrom(text, k + 1, Append(cur, text[k]), FALSE)
       ELSE ended \cup WordsFrom(text, k + 1, <<>>, FALSE)

CodeWords(text) == WordsFrom(text, 1, <<>>, FALSE)

\* the word that starts at position k of a line
WordAt(line, k) ==
    LET ends == {e \in k..(Len(line) + 1) : e = Len(line) + 1 \/ ~IsWordCh(line[e])}
        e    == CHOOSE e \in ends : \A m \in ends : e <= m
    IN SubSeq(line, k, e - 1)

\* w is spelt as the tokenizer's identifiers are: a letter or '_', then
\* letters, digits and '_'
IsIdentifier(w) ==
    /\ w # <<>>
    /\ IsAlphaCh(w[1]) \/ w[1] = "_"
    /\ \A k \in 1..Len(w) : IsWordCh(w[k])

\* the bracket depth of a line after its first k characters
RECURSIVE DepthAt(_, _)
DepthAt(line, k) ==
    IF k = 0 THEN 0
    ELSE DepthAt(line, k - 1)
         + (IF line[k] = "[" THEN 1 ELSE IF line[k] = "]" THEN 0 - 1 ELSE 0)

\* the position of the ']' that closes the '[' at position k, 0 if there is none
CloseOf(line, k) ==
    LET cs == {j \in (k + 1)..Len(line) :
                  line[j] = "]" /\ DepthAt(line, j) = DepthAt(line, k) - 1}
    IN IF cs = {} THEN 0 ELSE CHOOSE j \in cs : \A m \in cs : j <= m

\* the colons at the own top level of the bracket opened at position k
OwnColons(line, k) ==
    {c \in (k + 1)..(CloseOf(line, k) - 1) :
        line[c] = ":" /\ DepthAt(line, c) = DepthAt(line, k)}

\* the colons anywhere inside the bracket opened at position k
AllColons(line, k) == {c \in (k + 1)..(CloseOf(line, k) - 1) : line[c] = ":"}

\* the brackets that are direct elements of the bracket opened at position k
NestedBrackets(line, k) ==
    {j \in (k + 1)..(CloseOf(line, k) - 1) :
        line[j] = "[" /\ DepthAt(line, j) = DepthAt(line, k) + 1}

\* the '[' at position k is closed and stands where a literal starts: the
\* nearest character before it that is no space is '=', ',' or '['
LiteralPosition(line, k) ==
    /\ line[k] = "["
    /\ CloseOf(line, k) # 0
    /\ \E p \in 1..(k - 1) :
          /\ line[p] \in {"=", ",", "["}
          /\ \A m \in (p + 1)..(k - 1) : line[m] = " "

\* the value of an emitted integer expression: a literal, or a literal
\* followed by ' + 1'
PyValue(expr) ==
    IF EndsWith(expr, <<" ","+"," ","1">>)
    THEN IntOf(SubSeq(expr, 1, Len(expr) - 4)) + 1
    ELSE IntOf(expr)

PyValueOk(expr) ==
    IF EndsWith(expr, <<" ","+"," ","1">>)
    THEN IntLiteralOk(SubSeq(expr, 1, Len(expr) - 4))
    ELSE IntLiteralOk(expr)

\* list(range(lo, hi)) of Python
PyRange(lo, hi) == [k \in 1..(IF hi > lo THEN hi - lo ELSE 0) |-> lo + k - 1]

\* ------------------------------------------------ C1: nested map literal

\* the line holds a list literal (no colon at its own top level) one of
\* whose direct elements is a bracket run that contains a colon
ListWithNestedMap(line) ==
    \E k \in 1..Len(line) :
        /\ LiteralPosition(line, k)
        /\ OwnColons(line, k) = {}
        /\ \E j \in NestedBrackets(line, k) : AllColons(line, j) # {}

\* C1: a program in which a list literal holds, as a direct element, a
\* bracket run with a colon in it makes transpile raise a BlockError and
\* return no text.
C1_NestedMapRejected ==
    (pc = "done" /\ \E l \in 1..Len(SourceLines) : ListWithNestedMap(SourceLines[l]))
        => (result.kind = "BlockError" /\ result.text = <<>>)

\* ------------------------------------------- C2: undefined identifiers

\* line l is 'y = NAME ...' where NAME is spelt as an identifier, is no
\* keyword, builtin or type, and occurs on no earlier line of the program
UndeclaredReference(l) ==
    LET line == SourceLines[l]
        name == WordAt(line, 5)
    IN /\ StartsWith(line, <<"y"," ","="," ">>)
       /\ IsIdentifier(name)
       /\ name \notin keywords \cup BUILTIN_FUNCTIONS \cup BUILTIN_TYPES
                       \cup DOMAIN BUILTIN_CONSTANTS
       /\ \A m \in 1..(l - 1) : name \notin CodeWords(SourceLines[m])

\* C2: a program that references, at a value position, a name not declared
\* before makes transpile raise a BlockError and return no text, whatever
\* the spelling of the name and also when the name is declared further
\* down; when the reference is on the first line the error names it.
C2_UndefinedIdentifierDetected ==
    pc = "done" =>
        \A l \in 1..Len(SourceLines) :
            UndeclaredReference(l) =>
                /\ result.kind = "BlockError"
                /\ result.text = <<>>
                /\ (l = 1 => result.msg.arg = WordAt(SourceLines[l], 5))

\* ----------------------------------------------- C3: one prefix per name

\* the names the program declares: variables, parameters, loop variables
\* and functions
DeclaredNames ==
    DOMAIN type_system.variables \cup (DOMAIN type_system.functions \ BUILTIN_FUNCTIONS)

\* C3: in the text of one transpile call no declared name is emitted both
\* with the block_ prefix and without it.
C3_SamePrefixEverywhere ==
    (pc = "done" /\ result.kind = "ok") =>
        \A n \in DeclaredNames :
            ~(n \in CodeWords(result.text) /\ (Lit.block_ \o n) \in CodeWords(result.text))

\* --------------------------------------- C4: runtime builtins are callable

\* the builtin function table of the runtime support library
RUNTIME_BUILTIN_FUNCTIONS ==
    { <<"e","c","h","o">>,
      <<"t","y","p","e","O","f">>,
      <<"t","o","S","t","r">>,
      <<"t","o","N","u","m">>,
      <<"s","t","r","T","o","U","p","p","e","r">>,
      <<"s","t","r","T","o","L","o","w","e","r">>,
      <<"s","t","r","T","o","T","i","t","l","e">>,
      <<"s","t","r","T","o","C","a","p","i","t","a","l">>,
      <<"s","t","r","S","w","a","p","C","a","s","e">>,
      <<"s","t","r","S","p","l","i","t">>,
      <<"s","t","r","C","o","u","n","t">>,
      <<"s","t","r","E","n","c","o","d","e">>,
      <<"s","t","r","S","t","r","i","p">>,
      <<"s","t","r","L","S","t","r","i","p">>,
      <<"s","t","r","R","S","t","r","i","p">>,
      <<"s","t","r","R","e","p","l","a","c","e">>,
      <<"s","t","r","S","t","a","r","t","s","W","i","t","h">>,
      <<"s","t","r","E","n","d","s","W","i","t","h">>,
      <<"s","t","r","F","i","n","d">>,
      <<"s","t","r","L","e","n">>,
      <<"n","u","m","A","b","s">>,
      <<"n","u","m","R","o","u","n","d">>,
      <<"n","u","m","F","l","o","o","r">>,
      <<"n","u","m","C","e","i","l">>,
      <<"n","u","m","T","r","u","n","c">>,
      <<"n","u","m","P","o","w">>,
      <<"n","u","m","S","q","r","t">>,
      <<"n","u","m","C","l","a","m","p">>,
      <<"n","u","m","S","i","g","n">>,
      <<"l","i","s","t","A","p","p","e","n","d">>,
      <<"l","i","s","t","P","o","p">>,
      <<"l","i","s","t","L","e","n">>,
      <<"l","i","s","t","E","x","t","e","n","d">>,
      <<"l","i","s","t","C","o","n","t","a","i","n","s">>,
      <<"t","u","p","l","e","L","e","n">>,
      <<"t","u","p","l","e","C","o","n","t","a","i","n","s">>,
      <<"s","e","t","A","d","d">>,
      <<"s","e","t","R","e","m","o","v","e">>,
      <<"s","e","t","C","o","n","t","a","i","n","s">>,
      <<"m","a","p","G","e","t">>,
      <<"m","a","p","S","e","t">>,
      <<"m","a","p","K","e","y","s">>,
      <<"m","a","p","V","a","l","u","e","s">>,
      <<"m","a","p","I","t","e","m","s">> }

\* line l is the call name[ARGS], and every identifier of ARGS is a
\* variable assigned on an earlier line
RuntimeCall(l, name) ==
    LET line == SourceLines[l]
    IN /\ StartsWith(line, name \o <<"[">>)
       /\ EndsWith(line, <<"]">>)
       /\ \A w \in CodeWords(SubSeq(line, Len(name) + 2, Len(line) - 1)) :
             IsIdentifier(w) =>
                 \E m \in 1..(l - 1) : StartsWith(SourceLines[m], w \o <<" ","="," ">>)

\* C4: a call NAME[args] of a function of the runtime library's table
\* transpiles without error and is emitted as NAME(args), the name
\* verbatim and without prefix.
C4_RuntimeBuiltinsCallable ==
    pc = "done" =>
        \A l \in 1..Len(SourceLines) : \A name \in RUNTIME_BUILTIN_FUNCTIONS :
            (RuntimeCall(l, name) /\ RestTranspiles(l)) =>
                /\ result.kind = "ok"
                /\ StartsWith(OutLine(l), name \o <<"(">>)
                /\ EndsWith(OutLine(l), <<")">>)

\* ---------------------------------------------------- C5: inclusive range

\* for block_i in range(
RangeHeaderOpen == Lit.for_sp \o Lit.block_ \o <<"i">> \o Lit.sp_in_sp \o Lit.range_open

\* the two arguments of the range call of an emitted header, as written
RangeArgs(line) ==
    LET mid  == SubSeq(line, Len(RangeHeaderOpen) + 1, Len(line) - 2)
        seps == {k \in 1..(Len(mid) - 1) : SubSeq(mid, k, k + 1) = Lit.comma_sp}
        k    == CHOOSE k \in seps : \A m \in seps : k <= m
    IN IF seps = {} THEN [lo |-> <<>>, hi |-> <<>>]
       ELSE [lo |-> SubSeq(mid, 1, k - 1), hi |-> SubSeq(mid, k + 2, Len(mid))]

\* C5: for integer literals A <= B the line 'for i in A..B:' is emitted as
\* a loop over a half-open range with lower bound A and upper bound B + 1,
\* so that the loop variable takes the B - A + 1 integers A, ..., B once
\* each in increasing order.
C5_InclusiveRange ==
    pc = "done" =>
        \A l \in 1..Len(SourceLines) : \A a, b \in IntLits :
            (SourceLines[l] = ForRangeLine(a, b) /\ IntOf(a) <= IntOf(b)) =>
                /\ result.kind = "ok"
                /\ StartsWith(OutLine(l), RangeHeaderOpen)
                /\ EndsWith(OutLine(l), <<")",":">>)
                /\ LET args == RangeArgs(OutLine(l))
                   IN /\ PyValueOk(args.lo) /\ PyValueOk(args.hi)
                      /\ PyValue(args.lo) = IntOf(a)
                      /\ PyValue(args.hi) = IntOf(b) + 1
                      /\ PyRange(PyValue(args.lo), PyValue(args.hi))
                             = [k \in 1..(IntOf(b) - IntOf(a) + 1) |-> IntOf(a) + k - 1]

\* a range written with a negative and a zero-padded bound has been emitted
C5_RangeEmitted ==
    /\ pc = "done"
    /\ \E l \in 1..Len(SourceLines) :
          /\ SourceLines[l] = ForRangeLine(<<"-","1">>, <<"0","2">>)
          /\ OutLine(l) = RangeHeaderOpen \o <<"-","1",","," ","2"," ","+"," ","1",")",":">>

\* ---------------------------------------------------- C6: inclusive slice

\* C6: when v is in the Collection-Variable Set and holds [1, 2, 3, 4], the
\* source expression v[s, e] with 0 <= s <= e < 4 is emitted as the
\* subscript [s:e+1], on whatever line it stands.
C6_InclusiveSliceEmitted ==
    pc = "done" =>
        \A l \in 1..Len(SourceLines) : \A s, e \in IntLits :
            (/\ Contains(SourceLines[l], <<"v","[">> \o s \o Lit.comma_sp \o e \o <<"]">>)
             /\ <<"v">> \in collection_variables
             /\ \E m \in 1..Len(SourceLines) : SourceLines[m] = ListDecl
             /\ 0 <= IntOf(s) /\ IntOf(s) <= IntOf(e) /\ IntOf(e) < 4
             /\ RestTranspiles(l)) =>
                /\ result.kind = "ok"
                /\ Contains(OutLine(l), <<"[">> \o StrOfInt(IntOf(s)) \o <<":">>
                                            \o StrOfInt(IntOf(e)) \o Lit.plus1_bracket)

\* ---------------------------------------- C7: map literal or list literal

\* the opening characters of an emitted line, in order
Openers(text) == SelectSeq(text, LAMBDA c : c \in {"[", "{", "("})

\* what the brackets of a source line open by the rule: '{' with a colon
\* at the bracket's own top level, '[' without
RECURSIVE OpenersByRule(_, _)
OpenersByRule(line, k) ==
    IF k > Len(line) THEN <<>>
    ELSE IF line[k] = "["
    THEN <<IF OwnColons(line, k) # {} THEN "{" ELSE "[">> \o OpenersByRule(line, k + 1)
    ELSE OpenersByRule(line, k + 1)

\* every '[' of the line stands in literal position, and there is one
OnlyLiterals(line) ==
    /\ \E k \in 1..Len(line) : line[k] = "["
    /\ \A k \in 1..Len(line) : line[k] = "[" => LiteralPosition(line, k)

\* C7: a '[' in literal position opens a map literal exactly when its
\* contents have a colon at the bracket's own top level, and a list literal
\* otherwise, also when a nested bracket run holds a colon.
C7_LiteralKindByOwnColons ==
    (pc = "done" /\ result.kind = "ok") =>
        \A l \in 1..Len(SourceLines) :
            OnlyLiterals(SourceLines[l]) =>
                Openers(OutLine(l)) = OpenersByRule(SourceLines[l], 1)

\* ------------------------------------------------------ C8: call isolation

\* C8: the result of every call is the result of transpiling its source in
\* a fresh process, whatever was transpiled before it, and equals the
\* result of every earlier call on the same source.
C8_CallIsolation ==
    pc = "done" =>
        /\ result = transpile(source)
        /\ \A k \in 1..Len(history) : history[k][1] = source => history[k][2] = result

\* a second call that references the variable the first call declared has
\* failed: the declaration did not carry over
C8_SecondCallIsFresh ==
    /\ pc = "done"
    /\ calls = 2
    /\ history = <<<<<<"x"," ","="," ","5">>, Returned(Lit.block_ \o <<"x","=","5">>)>>>>
    /\ source = <<"y"," ","="," ","x">>
    /\ result.kind = "BlockError"
    /\ result.msg.arg = <<"x">>

\* ------------------------------------------------------ C9: all or nothing

\* C9: a call to transpile ends either with the text of the whole program,
\* one output line per source line, or with a BlockError and no text; no
\* other kind of exception leaves it.
C9_AllOrNothing ==
    pc = "done" =>
        \/ /\ result.kind = "ok"
           /\ Len(SplitLines(result.text)) = Len(SourceLines)
        \/ /\ result.kind = "BlockError"
           /\ result.text = <<>>

\* a program whose second line holds a literal int() rejects has ended
\* with the wrapped error and no text
C9_WrappedFailure ==
    /\ pc = "done"
    /\ Len(SourceLines) = 2
    /\ SourceLines[2] = <<"y"," ","="," ","²">>
    /\ result.kind = "BlockError"
    /\ result.msg.prefix = "Transpilation error: "
    /\ result.text = <<>>

\* ------------------------------------------------- C10: annotation erasure

\* NAME:TYPE = value
AnnotatedDecl(name, type, value) == name \o <<":">> \o type \o <<" ","="," ">> \o value

\* C10: a declaration NAME:TYPE = value, on any line of the program, is
\* emitted as block_NAME=value, and an emitted function header holds no
\* type name and no colon but the one that ends it.
C10_AnnotationErased ==
    pc = "done" =>
        \A l \in 1..Len(SourceLines) :
            /\ \A name \in {<<"x">>, <<"v">>} :
               \A type \in {Lit.num, <<"[">> \o Lit.num \o <<"]">>} :
               \A value \in {<<"5">>, <<"[","1","]">>} :
                   (SourceLines[l] = AnnotatedDecl(name, type, value) /\ RestTranspiles(l)) =>
                       /\ result.kind = "ok"
                       /\ OutLine(l) = Lit.block_ \o name \o <<"=">> \o value
            /\ (StartsWith(SourceLines[l], Lit.fn \o <<" ">>) /\ result.kind = "ok") =>
                   /\ Lit.num \notin CodeWords(OutLine(l))
                   /\ Count(OutLine(l), ":") = 1
                   /\ EndsWith(OutLine(l), <<":">>)

\* the lines of the program that declare x with an annotation that is neither
\* a builtin type nor of a collection shape
UnknownTypeDecls ==
    {k \in 1..Len(SourceLines) :
        \E t \in DeclTypes, v \in DeclValues :
            SourceLines[k] = TypedDecl(t, v) /\ ~IsValidType(t)}

\* C11: a program with a declaration NAME:TYPE = value whose TYPE is neither a
\* builtin scalar tag nor a well-bracketed collection shape makes transpile
\* raise a BlockError and return no output.
C11_UnknownTypeAborts ==
    (pc = "done" /\ UnknownTypeDecls # {})
        => (result.kind = "BlockError" /\ result.text = <<>>)

\* a builtin scalar tag, or a string of the shape [...], (...) or {...}
KnownType(t) ==
    \/ t \in {Lit.num, Lit.bool, Lit.str, Lit.func, Lit.list, Lit.tuple, Lit.map, Lit.set}
    \/ /\ Len(t) >= 2
       /\ <<t[1], t[Len(t)]>> \in {<<"[", "]">>, <<"(", ")">>, <<"{", "}">>}

\* C12: define_variable(name, type) raises the 'Undefined type' BlockError and
\* leaves the variables and functions tables unchanged when the type is neither
\* a builtin type nor of a collection shape; otherwise it raises nothing, maps
\* name to the type whatever the name's earlier type, and changes no other entry.
C12_DefineVariableContract ==
    [][ api'.op = "define_variable" =>
          IF ~KnownType(api'.type)
          THEN /\ api'.err = [kind |-> "BlockError", text |-> "Undefined type ",
                              arg |-> api'.type]
               /\ type_system'.variables = type_system.variables
               /\ type_system'.functions = type_system.functions
          ELSE /\ api'.err.kind = "none"
               /\ DOMAIN type_system'.variables = DOMAIN type_system.variables \cup {api'.name}
               /\ type_system'.variables[api'.name] = api'.type
               /\ \A n \in DOMAIN type_system.variables \ {api'.name} :
                      type_system'.variables[n] = type_system.variables[n]
               /\ type_system'.functions = type_system.functions
               /\ type_system'.function_params = type_system.function_params ]_vars

\* witness of C12: y has just been given a type while x keeps the one it had
C12_VariableDefined ==
    /\ api.op = "define_variable" /\ api.err.kind = "none" /\ api.name = <<"y">>
    /\ DOMAIN type_system.variables = {<<"x">>, <<"y">>}
    /\ type_system.variables[<<"y">>] = api.type
    /\ type_system.variables[<<"x">>] # api.type

\* every type string stored in the symbol table
StoredTypes ==
    {type_system.variables[n] : n \in DOMAIN type_system.variables}
    \cup {type_system.functions[n] : n \in DOMAIN type_system.functions}
    \cup UNION {{type_system.function_params[n][k][2] :
                    k \in 1..Len(type_system.function_params[n])} :
                n \in DOMAIN type_system.function_params}

\* C13: after any sequence of define_variable and define_function calls, the
\* raising ones included, every type stored in the symbol table (variable
\* types, function return types, stored parameter types) is a builtin scalar
\* tag or a well-bracketed collection shape; so a define_function call that
\* fails validation has stored none of its types.
C13_StoredTypesValid == \A t \in StoredTypes : KnownType(t)

\* a text with each line feed replaced by the two characters backslash, n
RECURSIVE Folded(_)
Folded(text) ==
    IF text = <<>> THEN <<>>
    ELSE (IF Head(text) = "\n" THEN <<"\\", "n">> ELSE <<Head(text)>>) \o Folded(Tail(text))

\* the index of the first piece that opens a string or a block comment it
\* does not close, or Len(us) + 1
FirstOpen(us) ==
    LET open == {k \in 1..Len(us) : us[k].kind \in {"open_string", "open_comment"}}
    IN IF open = {} THEN Len(us) + 1 ELSE CHOOSE k \in open : \A m \in open : k <= m

\* nothing after an unclosed string holds a quote, nothing after an unclosed
\* block comment holds a closer: an opener left open stays open to the end
StaysOpen(us) ==
    \A k \in 1..Len(us) : \A m \in (k + 1)..Len(us) :
        /\ us[k].kind = "open_string" => ~Contains(us[m].text, <<"\"">>)
        /\ us[k].kind = "open_comment" => ~Contains(us[m].text, <<"*", "/">>)

\* the logical line a piece stands for: its code with the string literal
\* folded, without trailing blanks; none if there is no code in it
UnitLines(u) == IF Strip(u.code) = <<>> THEN <<>> ELSE <<RStrip(Folded(u.code))>>

\* the logical lines of the pieces us, in order
RECURSIVE ExpectedLines(_)
ExpectedLines(us) ==
    IF us = <<>> THEN <<>> ELSE UnitLines(Head(us)) \o ExpectedLines(Tail(us))

\* C14: no line returned by sourceToLine is blank or holds a raw line feed, and
\* a string literal that spans two physical lines is found whole, quotes
\* included, in one logical line, at its place in that line, with its line feed
\* replaced by backslash-n.
C14_LogicalLineShape ==
    pc = "lexed" =>
        /\ \A j \in 1..Len(logical_lines) :
               /\ Strip(logical_lines[j]) # <<>>
               /\ \A c \in 1..Len(logical_lines[j]) : logical_lines[j][c] # "\n"
        /\ StaysOpen(chunks) =>
               \A k \in 1..(FirstOpen(chunks) - 1) :
                   chunks[k].kind = "string" =>
                       \E j \in 1..Len(logical_lines) : logical_lines[j] = Folded(chunks[k].text)

\* C15: in a text whose block comments are all closed, the lexer discards exactly
\* the characters from each '/*' through its '*/', on one line or over two, and
\* goes on right after the closer: the lines returned are the lines of the
\* pieces without their comments, the ones after a closed comment included.
C15_BlockCommentScope ==
    (/\ pc = "lexed"
     /\ FirstOpen(chunks) > Len(chunks)
     /\ \E k \in 1..Len(chunks) : chunks[k].kind = "block_comment")
        => logical_lines = ExpectedLines(chunks)

\* the pieces among the first n of us that are the code line or the string
\* line whose logical line is l
CodeUnits(us, n, l) ==
    {k \in 1..n : us[k].kind \in {"code", "string"} /\ UnitLines(us[k]) = <<l>>}

\* C16: sourceToLine returns on every text; when a string literal or a block
\* comment is never closed, every code line completed before the opener is
\* returned, once for each time it was written, and nothing from the opener
\* to the end of the text is in a returned line.
C16_UnterminatedConsumed ==
    (pc = "lexed" /\ StaysOpen(chunks) /\ FirstOpen(chunks) <= Len(chunks))
        => /\ \A u \in {v \in LexUnits : v.kind \in {"code", "string"}} :
                  LET l == UnitLines(u)[1]
                  IN Cardinality({j \in 1..Len(logical_lines) : logical_lines[j] = l})
                         = Cardinality(CodeUnits(chunks, FirstOpen(chunks) - 1, l))
           /\ \A j \in 1..Len(logical_lines) :
                  \A c \in {"u", "v", "w"} : ~Contains(logical_lines[j], <<c>>)

\* an integer or decimal literal: an optional sign, digits, and at most one
\* '.' with digits on both sides
IsLiteral(d) ==
    LET b    == IF d # <<>> /\ Head(d) = "-" THEN Tail(d) ELSE d
        dots == {k \in 1..Len(b) : b[k] = "."}
    IN /\ b # <<>>
       /\ \A k \in 1..Len(b) : b[k] \in DecimalDigits \cup {"."}
       /\ Cardinality(dots) <= 1
       /\ \A k \in dots : 1 < k /\ k < Len(b)

\* the places <<a, b>> of the line where a literal starts, at the start of the
\* line or after a blank, and ends right before the text next
LiteralsBefore(line, next) ==
    {ab \in (0..Len(line)) \X (0..Len(line)) :
        /\ ab[1] < ab[2]
        /\ ab[1] = 0 \/ At(line, ab[1] - 1) = " "
        /\ IsLiteral(Slice(line, ab[1], ab[2]))
        /\ Slice(line, ab[2], ab[2] + Len(next)) = next}

\* C17: where a numeric literal is immediately followed by '..', tokenize_line
\* yields the tokens of what precedes, the NUMBER of the literal (an integer
\* unless the literal holds a decimal point), one OPERATOR '..', then the tokens
\* of the rest; and a literal that holds a decimal point ends before a second
\* '.': no literal takes a '.' followed by '.', nor two of them.
C17_RangeAfterNumber ==
    pc = "tokenized" =>
        /\ \A ab \in LiteralsBefore(line_content, <<".", ".">>) :
               LET d == Slice(line_content, ab[1], ab[2])
                   n == NUMBER(d)
               IN /\ line_tokens = tokenize_line(Slice(line_content, 0, ab[1]))
                                     \o <<n, OPERATOR(<<".", ".">>)>>
                                     \o tokenize_line(Slice(line_content, ab[2] + 2,
                                                            Len(line_content)))
                  /\ n.t = "NUMBER"
                  /\ Contains(n.py, <<".">>) <=> Contains(d, <<".">>)
        /\ \A ab \in LiteralsBefore(line_content, <<".">>) :
               LET d == Slice(line_content, ab[1], ab[2])
               IN Contains(d, <<".">>) =>
                      line_tokens = tokenize_line(Slice(line_content, 0, ab[1]))
                                      \o <<NUMBER(d)>>
                                      \o tokenize_line(Slice(line_content, ab[2],
                                                             Len(line_content)))

\* witness of C17: the line 1.1..1 has been tokenized into three tokens
C17_DecimalThenRange ==
    /\ pc = "tokenized"
    /\ line_content = <<"1", ".", "1", ".", ".", "1">>
    /\ Len(line_tokens) = 3
    /\ line_tokens[2] = OPERATOR(<<".", ".">>)

\* the indices of the line-end nodes
LineEnds == {k \in 1..Len(ast_nodes) : ast_nodes[k].t = "EOL"}

\* the nodes of the n-th source line, its line-end node included
LineNodes(n) ==
    LET ends == {k \in LineEnds : Cardinality({m \in LineEnds : m <= k}) = n}
        last == CHOOSE k \in ends : TRUE
        prev == {m \in LineEnds : m < last}
        from == IF prev = {} THEN 1 ELSE (CHOOSE m \in prev : \A q \in prev : q <= m) + 1
    IN SubSeq(ast_nodes, from, last)

\* what the second pass returns for the n-th source line on its own: alone if
\* it is the first line, after the line end of an empty line otherwise
LineOnItsOwn(n) ==
    SecondPassRun(IF n = 1 THEN LineNodes(n) ELSE <<EOL>> \o LineNodes(n),
                  0, <<>>, <<>>, type_system, collection_variables)

\* C18: when emission succeeds, the text returned has exactly one line per
\* line-end node, in order, and each is what the nodes of its own source line
\* give on their own; unclosed '[' and unclosed parameter lists included.
C18_LineCorrespondence ==
    (pc = "done" /\ result.kind = "ok") =>
        /\ Len(OutputLines) = Cardinality(LineEnds)
        /\ \A n \in 1..Cardinality(LineEnds) :
               n <= Len(OutputLines)
               /\ LineOnItsOwn(n)
                    = Returned(IF n = 1 THEN OutputLines[n] ELSE <<"\n">> \o OutputLines[n])

\* C19: from the first step of the emission pass to its end or to the error it
\* raises, the symbol table (variables, functions, function parameters) and
\* the Collection-Variable Set keep the values they had at the end of pass 1.
C19_SecondPassReadOnly ==
    [][ pc = "pass2" =>
          /\ type_system'.variables = type_system.variables
          /\ type_system'.functions = type_system.functions
          /\ type_system'.function_params = type_system.function_params
          /\ collection_variables' = collection_variables ]_vars

\* witness of C19: the emission pass is under way with a variable, a function
\* and a collection variable declared by pass 1
C19_EmittingWithTables ==
    /\ pc = "pass2" /\ i > 0 /\ i < Len(ast_nodes)
    /\ DOMAIN type_system.variables # {}
    /\ DOMAIN type_system.function_params # {}
    /\ collection_variables # {}

\* the line of the most recent declaration of x before line k, or 0
RecentDeclaration(k) ==
    LET before == {j \in 1..(k - 1) : SourceLines[j] \in Declarations}
    IN IF before = {} THEN 0 ELSE CHOOSE j \in before : \A m \in before : m <= j

\* C20: at a bracket use, x is treated as a collection variable (the use is
\* emitted as a subscript or a slice, with '[') exactly when the right-hand side
\* of its most recent declaration begins with '[', '(' or '{'; after x = [1, 2]
\* and then x = 5, a later x[...] is not a subscript or a slice.
C20_CollectionFollowsDeclaration ==
    (pc = "done" /\ result.kind = "ok" /\ Len(OutputLines) = Len(SourceLines)) =>
        \A k \in 1..Len(SourceLines) :
            (SourceLines[k] \in BracketUses /\ RecentDeclaration(k) # 0) =>
                (Contains(OutputLines[k], <<"[">>)
                    <=> SourceLines[RecentDeclaration(k)][5] \in {"[", "(", "{"})

\* ------------------------------------- C21: every delimiter kind registers

\* line declares x, untyped or typed, with a right-hand side that starts
\* with the opening delimiter d
DeclaresWith(line, d) ==
    \/ StartsWith(line, <<"x", " ", "=", " ", d>>)
    \/ StartsWith(line, <<"x", ":">>) /\ Contains(line, <<" ", "=", " ", d>>)

\* C21: after a declaration of x whose right-hand side starts with '[', '('
\* or '{' (typed or untyped, on any line of the program), x is in the
\* Collection-Variable Set, the call returns, and every line y = x[0] is
\* emitted as the subscript block_y=block_x[0].
C21_EveryDelimiterRegisters ==
    (/\ pc = "done"
     /\ \E l \in 1..Len(SourceLines), d \in {"[", "(", "{"} : DeclaresWith(SourceLines[l], d))
    => /\ <<"x">> \in collection_variables
       /\ result.kind = "ok"
       /\ \A u \in 1..Len(SourceLines) :
             SourceLines[u] = <<"y"," ","="," ","x","[","0","]">>
             => OutLine(u) = <<"b","l","o","c","k","_","y","=","b","l","o","c","k","_","x","[","0","]">>

\* ------------------------------------------ C22: call brackets everywhere

\* the number of places where sub occurs in text
Occurrences(text, sub) ==
    Cardinality({k \in 1..(Len(text) - Len(sub) + 1) : SubSeq(text, k, k + Len(sub) - 1) = sub})

\* C22: f being a function and no collection variable, every 'f[' of a
\* source line is emitted as 'f(' and its ']' as ')': the output line has no
\* 'f[', as many 'f(' as the source line has 'f[' (the definition line's
\* 'f [' included), and as many ')' as '('.
C22_CallBracketEverywhere ==
    (/\ pc = "done"
     /\ result.kind = "ok"
     /\ StartsWith(source, <<"f","n"," ","f"," ","[","a","]">>)
     /\ <<"f">> \notin collection_variables)
    => \A l \in 1..Len(SourceLines) :
          /\ Occurrences(OutLine(l), <<"f", "[">>) = 0
          /\ Occurrences(OutLine(l), <<"f", "(">>)
                = Occurrences(SourceLines[l], <<"f", "[">>)
                  + Occurrences(SourceLines[l], <<"f", " ", "[">>)
          /\ Count(OutLine(l), ")") = Count(OutLine(l), "(")

\* ------------------------------------------- C23: closer matches opener

\* the closing character of an opening one
ClosingOf(c) == IF c = "(" THEN ")" ELSE IF c = "[" THEN "]" ELSE "}"

\* from position k on, every closing bracket character of text that stands
\* outside a double-quoted literal closes the nearest open bracket of its
\* own kind, and none stays open; open holds the closers still awaited
RECURSIVE Nested(_, _, _, _)
Nested(text, k, open, quoted) ==
    IF k > Len(text) THEN open = <<>>
    ELSE IF quoted THEN Nested(text, k + 1, open, text[k] # "\"")
    ELSE IF text[k] = "\"" THEN Nested(text, k + 1, open, TRUE)
    ELSE IF text[k] \in {"(", "[", "{"}
         THEN Nested(text, k + 1, <<ClosingOf(text[k])>> \o open, FALSE)
    ELSE IF text[k] \in {")", "]", "}"}
         THEN /\ open # <<>>
              /\ Head(open) = text[k]
              /\ Nested(text, k + 1, Tail(open), FALSE)
    ELSE Nested(text, k + 1, open, FALSE)

\* C23: when the call returns, the output line of every source line whose
\* brackets are balanced (its '[' ']' pairs and its '(' ')' '{' '}', outside
\* string literals) is bracket-balanced outside its string literals: every
\* closer is of the kind of the opener it closes.
C23_CloserMatchesOpener ==
    (pc = "done" /\ result.kind = "ok")
    => \A l \in 1..Len(SourceLines) :
          Nested(SourceLines[l], 1, <<>>, FALSE) => Nested(OutLine(l), 1, <<>>, FALSE)

\* ------------------------------------------ C24: block delimiter appended

\* the line begins, after its indentation, with if, elif or while, or is a
\* function definition
OpensBlock(line) ==
    \E kw \in {<<"i","f"," ">>, <<"e","l","i","f"," ">>, <<"w","h","i","l","e"," ">>, <<"f","n"," ">>} :
        StartsWith(LStrip(line), kw)

\* C24: when the call returns, the output line of every source line that
\* opens a block ends with exactly one ':', whether the source line ends
\* with ':' or not.
C24_BlockDelimiterAppended ==
    (pc = "done" /\ result.kind = "ok")
    => \A l \in 1..Len(SourceLines) :
          OpensBlock(SourceLines[l])
          => /\ EndsWith(OutLine(l), <<":">>)
             /\ ~EndsWith(OutLine(l), <<":", ":">>)

\* ------------------------------------------- C25: indentation kept as is

\* the leading-whitespace run of a line
LeadingWhitespace(line) == SubSeq(line, 1, Len(line) - Len(LStrip(line)))

\* C25: when the call returns, the leading-whitespace run of every output
\* line is, character for character, that of its source line.
C25_IndentationVerbatim ==
    (pc = "done" /\ result.kind = "ok")
    => \A l \in 1..Len(SourceLines) :
          LeadingWhitespace(OutLine(l)) = LeadingWhitespace(SourceLines[l])

\* ------------------------------------------ C26: shallow inference table

\* line is an untyped declaration NAME = rhs of a one-letter name
UntypedDeclaration(line) ==
    Len(line) >= 5 /\ IsAlphaCh(line[1]) /\ SubSeq(line, 2, 4) = <<" ", "=", " ">>

\* the type the table gives for a right-hand side, by its first token;
\* fns are the names defined as functions on the lines before
TableType(rhs, fns) ==
    LET w == WordAt(rhs, 1) IN
    IF rhs[1] = "\"" THEN Lit.str
    ELSE IF IsDigitCh(rhs[1]) \/ (rhs[1] = "-" /\ Len(rhs) > 1 /\ IsDigitCh(rhs[2])) THEN Lit.num
    ELSE IF w \in DOMAIN BUILTIN_CONSTANTS THEN BUILTIN_CONSTANTS[w][1]
    ELSE IF rhs[1] = "[" THEN Lit.list
    ELSE IF rhs[1] = "(" THEN Lit.tuple
    ELSE IF rhs[1] = "{" THEN Lit.set
    ELSE IF w \in BUILTIN_FUNCTIONS \cup fns THEN Lit.func
    ELSE Lit.num

\* the names defined by a line 'fn NAME ...' among the first n source lines
FunctionsBefore(n) ==
    {WordAt(SourceLines[k], 4) : k \in {m \in 1..n : StartsWith(SourceLines[m], <<"f","n"," ">>)}}

\* C26: once the first pass has run, the type recorded for the name of
\* every untyped declaration NAME = rhs (the last declaration of NAME in the
\* program) is the table's type for the first token of rhs.
C26_ShallowInferenceTable ==
    (pc \in {"pass2", "done"} /\ (pc = "done" => result.kind = "ok"))
    => \A l \in 1..Len(SourceLines) :
          (/\ UntypedDeclaration(SourceLines[l])
           /\ \A m \in (l + 1)..Len(SourceLines) :
                 ~(/\ Len(SourceLines[m]) >= 2
                   /\ SourceLines[m][1] = SourceLines[l][1]
                   /\ SourceLines[m][2] \in {" ", ":"}))
          => /\ <<SourceLines[l][1]>> \in DOMAIN type_system.variables
             /\ type_system.variables[<<SourceLines[l][1]>>]
                   = TableType(SubSeq(SourceLines[l], 5, Len(SourceLines[l])), FunctionsBefore(l - 1))

\* ------------------------------------------- C27: parameters are declared

\* the one-letter parameter names of a function definition line: a letter
\* after '[' or after ', ', followed by ']', ',', ':' or '='
ParameterNames(line) ==
    IF ~StartsWith(line, <<"f","n"," ">>) THEN {}
    ELSE {<<line[k]>> : k \in {j \in 3..(Len(line) - 1) :
                                  /\ IsAlphaCh(line[j])
                                  /\ line[j - 1] = "[" \/ SubSeq(line, j - 2, j - 1) = <<",", " ">>
                                  /\ line[j + 1] \in {"]", ",", ":", "="}}}

\* C27: no call ends with the error "Undefined identifier" for a name that
\* is a parameter (plain, annotated or defaulted) of a function definition
\* of the program.
C27_ParametersDeclared ==
    pc = "done"
    => ~(/\ result.kind = "BlockError"
         /\ result.msg.text = "Undefined identifier "
         /\ \E l \in 1..Len(SourceLines) : result.msg.arg \in ParameterNames(SourceLines[l]))

\* ------------------------------------ C30: keywords kept apart from names

\* the keywords of the emitted text
EmittedKeywords ==
    {<<"i","f">>, <<"e","l","i","f">>, <<"e","l","s","e">>, <<"w","h","i","l","e">>,
     <<"f","o","r">>, <<"i","n">>, <<"d","e","f">>, <<"r","e","t","u","r","n">>}

\* a is an emitted identifier: block_ and a word of the source
EmittedIdentifier(a) == \E s \in CodeWords(source) : a = <<"b","l","o","c","k","_">> \o s

\* the word w of the output is a keyword run together with the identifier
\* before or after it
Fused(w) ==
    \E kw \in EmittedKeywords :
        \/ /\ EndsWith(w, kw)
           /\ EmittedIdentifier(SubSeq(w, 1, Len(w) - Len(kw)))
        \/ /\ StartsWith(w, kw)
           /\ EmittedIdentifier(SubSeq(w, Len(kw) + 1, Len(w)))

\* C30: when the call returns, no word of an output line is a keyword run
\* together with the identifier next to it: a keyword and an adjacent
\* identifier have a space between them.
C30_KeywordsApart ==
    (pc = "done" /\ result.kind = "ok")
    => \A l \in 1..Len(OutputLines) : \A w \in CodeWords(OutputLines[l]) : ~Fused(w)

\* ------------------------------------------ C28: comment lines are inert

\* C28: for a text made of a comment line, a line feed and a text S,
\* sourceToLine returns what it returns for S alone.
C28_CommentLineInert ==
    (pc = "lexed" /\ Len(chunks) >= 2 /\ chunks[1] \in CommentLines)
    => logical_lines = sourceToLine(UnitsText(Tail(chunks)))

\* ------------------------------------- C29: the input file is not clobbered

\* C29: in every run of main in file mode with no output-file argument, the
\* output path differs from the input path, the input file holds after the
\* run what it held before, and a run that fails (file not found,
\* transpilation error) leaves every file as it was.
C29_InputNeverClobbered ==
    [][(/\ pc = "idle"
        /\ pc' = "exited"
        /\ Len(argv') = 2
        /\ At(argv', 1) # <<"-", "c">>)
       => LET input_file == At(argv', 1)
          IN /\ Replace(input_file, <<".","b","l","o","c","k">>, <<".","p","y">>) # input_file
             /\ input_file \in DOMAIN files
                => input_file \in DOMAIN files' /\ files'[input_file] = files[input_file]
             /\ exit_status' # 0 => files' = files]_vars

====
